---------------------------- MODULE Spec2Model ----------------------------
(***************************************************************************)
(* The quota gate of indices-viewer: the in-memory rate limiter            *)
(* (app/api/_lib/rateLimiter.ts, first half), the Vercel-KV rate limiter   *)
(* (app/api/_lib/rateLimiterKV.ts and the KV branch of rateLimiter.ts),    *)
(* the KV module's in-memory fallback, and the two route handlers that     *)
(* call them.                                                              *)
(*                                                                         *)
(* Time.  Date.now() is epoch milliseconds, about 1.7e12, which TLC's      *)
(* 32-bit integers cannot hold.  A model time t > 0 stands for the epoch   *)
(* millisecond OriginEpochSeconds * 1000 + t; the origin is a whole second *)
(* (2023-12-31T23:00:00Z), so floor(ms / 1000) of a sum splits exactly.    *)
(* The literal 0 stands for epoch 0, the code's "no window yet" value: no  *)
(* clock reading is 0, and now - 0 >= MINUTE_WINDOW_MS for every reading,  *)
(* as it is for every real Date.now().  A synchronous block of code reads  *)
(* one clock instant; a read after an await may see a later one.           *)
(***************************************************************************)
EXTENDS Integers, Sequences, FiniteSets, TLC

\* ------------------------------------------------------------- constants
MAX_PER_MINUTE == 20
MAX_PER_MONTH == 500
MINUTE_WINDOW_MS == 60000

\* ---------------------------------------------------------------- bounds
\* Minute windows of fine-grained instants in the short specifications.
MaxWindows == 1
\* Minute windows (one instant each) in the specifications that reach the
\* month cap: 25 full windows spend the 500 units.
MaxMonthWindows == 26

\* 2023-12-31T23:00:00Z
OriginEpochSeconds == 1704067200 - 3600
\* 2024-01-01T00:00:00Z in model time: the UTC month (and year) boundary.
MonthBoundaryMs == 3600 * 1000
\* The first clock reading of every behaviour.
StartMs == MonthBoundaryMs - 26 * MINUTE_WINDOW_MS

\* Offsets inside a minute window at which the clock is read.
Offsets == {0, 1, 999, 59999}

\* The clock readings of the short specifications: the first windows in
\* detail, and the instants around the month boundary.
FineInstants ==
    {StartMs + k * MINUTE_WINDOW_MS + o : k \in 0..MaxWindows, o \in Offsets}
        \cup {MonthBoundaryMs - 1000, MonthBoundaryMs - 1, MonthBoundaryMs,
              MonthBoundaryMs + 59000}

\* The clock readings of the specifications that reach the month cap: one
\* per minute window.
MonthInstants ==
    {StartMs + k * MINUTE_WINDOW_MS : k \in 0..MaxMonthWindows}

\* ------------------------------------------------------------- options
None == <<>>
Some(x) == <<x>>

Max(a, b) == IF a >= b THEN a ELSE b

\* ------------------------------------------------------------ calendar
\* Math.floor(ms / 1000) of the epoch millisecond a model time stands for.
EpochSeconds(t) == OriginEpochSeconds + t \div 1000

\* Days since 1970-01-01 of (year, month 1..12, day): the proleptic
\* Gregorian calendar of Date.UTC.
DaysFromCivil(y, m, d) ==
    LET yy == IF m <= 2 THEN y - 1 ELSE y
        era == yy \div 400
        yoe == yy - era * 400
        mp == IF m > 2 THEN m - 3 ELSE m + 9
        doy == (153 * mp + 2) \div 5 + d - 1
        doe == yoe * 365 + yoe \div 4 - yoe \div 100 + doy
    IN era * 146097 + doe - 719468

\* <<getUTCFullYear(), getUTCMonth()>> (month 0..11) of a day number.
CivilFromDays(z0) ==
    LET z == z0 + 719468
        era == z \div 146097
        doe == z - era * 146097
        yoe == (doe - doe \div 1460 + doe \div 36524 - doe \div 146096) \div 365
        doy == doe - (365 * yoe + yoe \div 4 - yoe \div 100)
        mp == (5 * doy + 2) \div 153
        m == IF mp < 10 THEN mp + 3 ELSE mp - 9
        y == yoe + era * 400 + (IF m <= 2 THEN 1 ELSE 0)
    IN <<y, m - 1>>

\* `${d.getUTCFullYear()}-${d.getUTCMonth()}`: the pair the string prints
\* (two decimal numerals joined by "-", so the string is one-to-one).
getMonthKey(now) == CivilFromDays(EpochSeconds(now) \div 86400)

\* Math.floor(Date.UTC(year, month + 1, 1) / 1000); month 12 carries into
\* the next year.
nextMonthResetEpochSeconds(now) ==
    LET ym == getMonthKey(now)
        y == IF ym[2] = 11 THEN ym[1] + 1 ELSE ym[1]
        m == IF ym[2] = 11 THEN 1 ELSE ym[2] + 2
    IN DaysFromCivil(y, m, 1) * 86400

\* Math.floor((windowStart + MINUTE_WINDOW_MS) / 1000) in epoch seconds.
WindowResetEpochSeconds(windowStart) ==
    IF windowStart = 0
        THEN MINUTE_WINDOW_MS \div 1000
        ELSE EpochSeconds(windowStart + MINUTE_WINDOW_MS)

VARIABLES
    clock,               \* the last reading of Date.now() (model time)
    modules,             \* the rate-limiter modules the process has loaded
    minuteWindowStart,   \* rateLimiter.ts, the in-memory tracker
    minuteCount,
    monthKey,
    monthCount,
    memRes,              \* the last result the in-memory tracker returned
    kvConfigured,        \* environment: KV configured and its client loads
    kvInitialized,       \* rateLimiter.ts, the KV tracker with fallback
    kv,
    degradationLogs,     \* console.log of "Using in-memory fallback" so far
    fallbackMinuteStart,
    fallbackMinuteCount,
    fallbackMonthKey,
    fallbackMonthCount,
    kvMinute,            \* the store's "rate:minute" record
    kvMonth,             \* the store's "rate:month:<key>" records
    call,                \* each caller's consumeRateLimit() in progress
    kvRes,               \* the last result each caller was returned
    audit,               \* observer: the allowed calls of a window and month
    indicesCache,        \* indices/route.ts, CACHE
    perfCache,           \* indices-performance/route.ts, CACHE
    req,                 \* each request slot's GET handler in progress
    resp,                \* the last response each request slot was sent
    through,             \* observer: the requests that passed the quota step
    recent,              \* observer: the clock readings of the consume()
                         \* calls allowed in the last 60,000 ms
    pending,             \* driver of two backends: the clock reading of a
                         \* call made on one and still to be made on the other
    twin,                \* observer: the in-memory tracker of a run that is
                         \* sent the same consume() calls and no snapshot
    connected,           \* environment: each slot's client still waits for
                         \* the response
    mounted,             \* the browser has loaded the page (Dashboard)
    documentHidden,      \* document.hidden
    visible,             \* hooks.ts, usePageVisibility's state in each hook
    wsOption,            \* useIndices' option ws
    openId,              \* usePerformance's argument id (the open panel)
    timer,               \* each hook's running interval: its next due time
    lastPoll,            \* observer: each hook's last fetch by its interval
    fetches              \* each hook's state (loading, data, error,
                         \* hasLoadedRef) and its request in flight

memVars == <<minuteWindowStart, minuteCount, monthKey, monthCount, memRes>>
fbVars ==
    <<fallbackMinuteStart, fallbackMinuteCount, fallbackMonthKey,
      fallbackMonthCount>>
storeVars == <<kvMinute, kvMonth>>
clientVars == <<kvConfigured, kvInitialized, kv, degradationLogs>>
kvVars == <<clientVars, fbVars, storeVars, call, kvRes>>
hookVars ==
    <<mounted, documentHidden, visible, wsOption, openId, timer, lastPoll,
      fetches>>
routeVars ==
    <<indicesCache, perfCache, req, resp, through, recent, pending, twin, connected,
      hookVars>>
vars == <<clock, modules, memVars, kvVars, audit, routeVars>>

\* Concurrent callers of the KV tracker (request handlers in flight).
Callers == {1, 2}

\* ------------------------------------------------------------ observer
\* The observer counts the calls that were allowed in the minute window the
\* tracker put them in (the window start it holds after the call) and in the
\* UTC month of the call's clock reading.  For a call that awaits the store
\* it notes at the call's start whether MAX_PER_MINUTE calls had already been
\* allowed in the window its clock reading falls in (atCap).
Audited(a, now, windowStart) ==
    [winStart |-> windowStart,
     winAllowed |-> IF a.winStart = windowStart THEN a.winAllowed + 1 ELSE 1,
     month |-> getMonthKey(now),
     monAllowed |-> IF a.month = getMonthKey(now) THEN a.monAllowed + 1 ELSE 1,
     atCap |-> a.atCap]

Issued(a, p, now) ==
    [a EXCEPT !.atCap[p] =
        /\ a.winAllowed >= MAX_PER_MINUTE
        /\ a.winStart <= now
        /\ now < a.winStart + MINUTE_WINDOW_MS]

\* The observer keeps the clock readings of the allowed consume() calls
\* that lie less than 60,000 ms before the latest of them.
Recently(r, res) ==
    IF res.op = "consume" /\ res.allowed
        THEN Append(SelectSeq(r, LAMBDA t : res.now - t < MINUTE_WINDOW_MS),
                    res.now)
        ELSE r

\* ------------------------------------------------------ shared pieces
Headers(remainingMinute, resetMinute, remainingMonth, resetMonth) ==
    [limitMinute |-> MAX_PER_MINUTE, remainingMinute |-> remainingMinute,
     resetMinute |-> resetMinute, limitMonth |-> MAX_PER_MONTH,
     remainingMonth |-> remainingMonth, resetMonth |-> resetMonth]

NoHeaders == Headers(0, 0, 0, 0)

\* A call's outcome: the RateLimitResult it returned, with the clock reading
\* it used.
Result(op, now, allowed, reason, retry, headers, minRem, monRem) ==
    [op |-> op, now |-> now, allowed |-> allowed,
     reason |-> reason, retryAfterSeconds |-> retry, headers |-> headers,
     minuteRemaining |-> minRem, monthRemaining |-> monRem]

NoResult ==
    Result("none", 0, FALSE, "none", None, NoHeaders, None, None)

\* ----------------------------------------------- the in-memory tracker
MemState ==
    [minuteWindowStart |-> minuteWindowStart, minuteCount |-> minuteCount,
     monthKey |-> monthKey, monthCount |-> monthCount]

ensureMinuteWindow(now, s) ==
    IF s.minuteWindowStart = 0 \/ now - s.minuteWindowStart >= MINUTE_WINDOW_MS
        THEN [s EXCEPT !.minuteWindowStart = now, !.minuteCount = 0]
        ELSE s

ensureMonthWindow(now, s) ==
    IF s.monthKey # getMonthKey(now)
        THEN [s EXCEPT !.monthKey = getMonthKey(now), !.monthCount = 0]
        ELSE s

minuteResetEpochSeconds(s) == WindowResetEpochSeconds(s.minuteWindowStart)

\* Mutant: the headers count the call as spent whatever its outcome.
buildHeadersAsIfSpent(now, s, currentMinuteCount, currentMonthCount) ==
    Headers(Max(0, MAX_PER_MINUTE - (currentMinuteCount + 1)),
            minuteResetEpochSeconds(s),
            Max(0, MAX_PER_MONTH - (currentMonthCount + 1)),
            nextMonthResetEpochSeconds(now))

buildHeaders(now, s, currentMinuteCount, currentMonthCount) ==
    Headers(Max(0, MAX_PER_MINUTE - currentMinuteCount),
            minuteResetEpochSeconds(s),
            Max(0, MAX_PER_MONTH - currentMonthCount),
            nextMonthResetEpochSeconds(now))

\* Mutant: the minute cap is only enforced while the month has capacity.
MemMinuteCapReachedUnlessMonth(s) ==
    s.minuteCount >= MAX_PER_MINUTE /\ s.monthCount < MAX_PER_MONTH

\* Mutant: the cap is compared with > instead of >=.
MemMinuteCapReachedOffByOne(s) == s.minuteCount > MAX_PER_MINUTE

\* if (minuteCount >= MAX_PER_MINUTE)
MemMinuteCapReached(s) == s.minuteCount >= MAX_PER_MINUTE

\* Mutant: the cap is compared with > instead of >=.
MemMonthCapReachedOffByOne(s) == s.monthCount > MAX_PER_MONTH

\* if (monthCount >= MAX_PER_MONTH)
MemMonthCapReached(s) == s.monthCount >= MAX_PER_MONTH

\* Math.max(1, minuteResetEpochSeconds() - Math.floor(now / 1000))
MemRetryAfterSeconds(now, s) ==
    Max(1, minuteResetEpochSeconds(s) - EpochSeconds(now))

\* Mutant: the minute count is not incremented.
MemIncrementMonthOnly(s) == [s EXCEPT !.monthCount = @ + 1]

\* minuteCount += 1; monthCount += 1
MemIncrement(s) == [s EXCEPT !.minuteCount = @ + 1, !.monthCount = @ + 1]

\* The state and the result of consumeRateLimit() at clock reading now.
MemConsumeOutcome(now, s0) ==
    LET s == ensureMonthWindow(now, ensureMinuteWindow(now, s0))
        s2 == MemIncrement(s)
    IN  IF MemMinuteCapReached(s)
            THEN [state |-> s,
                  res |-> Result("consume", now, FALSE, "minute",
                      Some(MemRetryAfterSeconds(now, s)),
                      buildHeaders(now, s, s.minuteCount, s.monthCount),
                      None, None)]
        ELSE IF MemMonthCapReached(s)
            THEN [state |-> s,
                  res |-> Result("consume", now, FALSE, "month", None,
                      buildHeaders(now, s, s.minuteCount, s.monthCount),
                      None, None)]
        ELSE [state |-> s2,
              res |-> Result("consume", now, TRUE, "none", None,
                  buildHeaders(now, s2, s2.minuteCount, s2.monthCount),
                  Some(Max(0, MAX_PER_MINUTE - s2.minuteCount)),
                  Some(Max(0, MAX_PER_MONTH - s2.monthCount)))]

\* Mutant: the snapshot is taken by consuming.
MemSnapshotOutcomeSpending(now, s0) == MemConsumeOutcome(now, s0)

MemSnapshotOutcome(now, s0) ==
    LET s == ensureMonthWindow(now, ensureMinuteWindow(now, s0))
    IN [state |-> s,
        res |-> Result("snapshot", now, FALSE, "none", None,
                    buildHeaders(now, s, s.minuteCount, s.monthCount),
                    None, None)]

MemApply(o) ==
    /\ minuteWindowStart' = o.state.minuteWindowStart
    /\ minuteCount' = o.state.minuteCount
    /\ monthKey' = o.state.monthKey
    /\ monthCount' = o.state.monthCount
    /\ memRes' = o.res
    /\ audit' = IF o.res.allowed
                    THEN Audited(audit, o.res.now, o.state.minuteWindowStart)
                    ELSE audit

\* consumeRateLimit() of the in-memory tracker, reading the clock at one of
\* the instants I.  A call says nothing of the route handlers' variables:
\* the handler that makes it does, or the specification when nothing but the
\* call happens.
MemConsume(I) ==
    /\ "memory" \in modules
    /\ \E now \in I :
        /\ now >= clock
        /\ clock' = now
        /\ MemApply(MemConsumeOutcome(now, MemState))
    /\ UNCHANGED <<modules, kvVars>>

\* rateLimitSnapshotHeaders() of the in-memory tracker.
MemSnapshot(I) ==
    /\ "memory" \in modules
    /\ \E now \in I :
        /\ now >= clock
        /\ clock' = now
        /\ MemApply(MemSnapshotOutcome(now, MemState))
    /\ UNCHANGED <<modules, kvVars>>

\* ------------------------------------- the KV module's in-memory fallback
FbState ==
    [minuteStart |-> fallbackMinuteStart, minuteCount |-> fallbackMinuteCount,
     monthKey |-> fallbackMonthKey, monthCount |-> fallbackMonthCount]

\* if (fallbackMonthKey !== currentMonthKey) { ... }
FbEnsureMonth(now, s) ==
    IF s.monthKey # getMonthKey(now)
        THEN [s EXCEPT !.monthKey = getMonthKey(now), !.monthCount = 0]
        ELSE s

\* if (fallbackMinuteStart === 0 || now - fallbackMinuteStart >= MINUTE_WINDOW_MS)
FbEnsureMinute(now, s) ==
    IF s.minuteStart = 0 \/ now - s.minuteStart >= MINUTE_WINDOW_MS
        THEN [s EXCEPT !.minuteStart = now, !.minuteCount = 0]
        ELSE s

\* The headers are built from the counts before the increment.
FbHeaders(now, s) ==
    Headers(Max(0, MAX_PER_MINUTE - s.minuteCount),
            WindowResetEpochSeconds(s.minuteStart),
            Max(0, MAX_PER_MONTH - s.monthCount),
            nextMonthResetEpochSeconds(now))

FbMinuteCapReached(s) == s.minuteCount >= MAX_PER_MINUTE

FbMonthCapReached(s) == s.monthCount >= MAX_PER_MONTH

\* Math.max(1, minuteResetSeconds - Math.floor(now / 1000))
FbRetryAfterSeconds(now, s) ==
    Max(1, WindowResetEpochSeconds(s.minuteStart) - EpochSeconds(now))

FbIncrement(s) == [s EXCEPT !.minuteCount = @ + 1, !.monthCount = @ + 1]

\* The state and the result of consumeRateLimitFallback(now).
consumeRateLimitFallback(now, s0) ==
    LET s == FbEnsureMinute(now, FbEnsureMonth(now, s0))
        s2 == FbIncrement(s)
        headers == FbHeaders(now, s)
    IN  IF FbMinuteCapReached(s)
            THEN [state |-> s,
                  res |-> Result("consume", now, FALSE, "minute",
                      Some(FbRetryAfterSeconds(now, s)), headers, None, None)]
        ELSE IF FbMonthCapReached(s)
            THEN [state |-> s,
                  res |-> Result("consume", now, FALSE, "month", None,
                      headers, None, None)]
        ELSE [state |-> s2,
              res |-> Result("consume", now, TRUE, "none", None, headers,
                  Some(MAX_PER_MINUTE - s2.minuteCount),
                  Some(MAX_PER_MONTH - s2.monthCount))]

FbApply(p, o) ==
    /\ fallbackMinuteStart' = o.state.minuteStart
    /\ fallbackMinuteCount' = o.state.minuteCount
    /\ fallbackMonthKey' = o.state.monthKey
    /\ fallbackMonthCount' = o.state.monthCount
    /\ kvRes' = [kvRes EXCEPT ![p] = o.res]
    /\ audit' = IF o.res.allowed
                    THEN Audited(audit, o.res.now, o.state.minuteStart)
                    ELSE audit

\* ------------------------------------------------------- the KV store
\* A record of the store: its value and when it expires.  kv.get answers
\* null for an absent or expired record.  The minute record expires 60 s
\* after it was last set ({ ex: 60 }), a month record at the epoch second
\* it was given ({ exat }).
StoreGetMinute(t) ==
    IF kvMinute = None THEN None
    ELSE IF t >= kvMinute[1].expiresAt THEN None
    ELSE Some(kvMinute[1].value)

StoreGetMonth(key, t) ==
    IF kvMonth[key] = None THEN None
    ELSE IF EpochSeconds(t) >= kvMonth[key][1].exat THEN None
    ELSE Some(kvMonth[key][1].value)

StoreSetMinute(value, t) ==
    Some([value |-> value, expiresAt |-> t + 60 * 1000])

StoreSetMonth(value, exat) == Some([value |-> value, exat |-> exat])

\* The month keys the behaviours can name.
MonthKeys == {getMonthKey(t) : t \in FineInstants \cup MonthInstants}

\* ---------------------------------------------------- the KV tracker
Idle == [pc |-> "idle"]

\* const now = Date.now(); ... Promise.all([kv.get(minuteKey), kv.get(monthKey)])
KvStarted(now) ==
    [pc |-> "get", now |-> now, monthKey |-> getMonthKey(now),
     gotMinute |-> FALSE, minuteData |-> None,
     gotMonth |-> FALSE, monthCount |-> None]

\* minuteData?.windowStart ?? now
KvMinuteWindowStart(now, minuteData) ==
    IF minuteData = None THEN now ELSE minuteData[1].windowStart

\* now - minuteWindowStart >= MINUTE_WINDOW_MS
KvIsMinuteExpired(now, windowStart) == now - windowStart >= MINUTE_WINDOW_MS

\* isMinuteExpired ? 0 : (minuteData?.count ?? 0)
KvCurrentMinuteCount(now, minuteData) ==
    IF KvIsMinuteExpired(now, KvMinuteWindowStart(now, minuteData)) THEN 0
    ELSE IF minuteData = None THEN 0
    ELSE minuteData[1].count

\* monthCount ?? 0
KvCurrentMonthCount(monthCountRead) ==
    IF monthCountRead = None THEN 0 ELSE monthCountRead[1]

\* Math.ceil(x / 1000), x of either sign
CeilSeconds(x) == 0 - ((0 - x) \div 1000)

\* Math.ceil((minuteWindowStart + MINUTE_WINDOW_MS - now) / 1000)
KvMinuteResetSeconds(now, windowStart) ==
    CeilSeconds(windowStart + MINUTE_WINDOW_MS - now)

\* The headers are built from the counts read, before any increment.
KvHeaders(now, later, minuteData, monthCountRead) ==
    Headers(Max(0, MAX_PER_MINUTE - KvCurrentMinuteCount(now, minuteData)),
            EpochSeconds(KvMinuteWindowStart(now, minuteData) + MINUTE_WINDOW_MS),
            Max(0, MAX_PER_MONTH - KvCurrentMonthCount(monthCountRead)),
            nextMonthResetEpochSeconds(later))

KvMinuteCapReached(currentMinuteCount) == currentMinuteCount >= MAX_PER_MINUTE

KvMonthCapReached(currentMonthCount) == currentMonthCount >= MAX_PER_MONTH

\* Math.max(1, minuteResetSeconds)
KvRetryAfterSeconds(now, windowStart) ==
    Max(1, KvMinuteResetSeconds(now, windowStart))

\* isMinuteExpired ? now : minuteWindowStart
KvNewWindowStart(now, minuteData) ==
    IF KvIsMinuteExpired(now, KvMinuteWindowStart(now, minuteData))
        THEN now
        ELSE KvMinuteWindowStart(now, minuteData)

\* The continuation after the two reads: the caller's next position and,
\* for a denial, its result.  later is the clock reading of new Date().
KvDecided(c, later) ==
    LET now == c.now
        ws == KvMinuteWindowStart(now, c.minuteData)
        cur == KvCurrentMinuteCount(now, c.minuteData)
        curMonth == KvCurrentMonthCount(c.monthCount)
        headers == KvHeaders(now, later, c.minuteData, c.monthCount)
    IN  IF KvMinuteCapReached(cur)
            THEN [pc |-> "idle",
                  res |-> Result("consume", now, FALSE, "minute",
                      Some(KvRetryAfterSeconds(now, ws)), headers, None, None)]
        ELSE IF KvMonthCapReached(curMonth)
            THEN [pc |-> "idle",
                  res |-> Result("consume", now, FALSE, "month", None,
                      headers, None, None)]
        ELSE [pc |-> "set", now |-> now, monthKey |-> c.monthKey,
              newMinute |-> [count |-> cur + 1,
                             windowStart |-> KvNewWindowStart(now, c.minuteData)],
              newMonthCount |-> curMonth + 1,
              exat |-> nextMonthResetEpochSeconds(later),
              setMinute |-> FALSE, setMonth |-> FALSE,
              res |-> Result("consume", now, TRUE, "none", None, headers,
                  Some(MAX_PER_MINUTE - (cur + 1)),
                  Some(MAX_PER_MONTH - (curMonth + 1)))]

\* consumeRateLimit() of rateLimiterKV.ts up to the two reads it issues.
KvBegin(p, I) ==
    /\ "kv" \in modules
    /\ call[p].pc = "idle"
    /\ \E now \in I :
        /\ now >= clock
        /\ clock' = now
        /\ call' = [call EXCEPT ![p] = KvStarted(now)]
        /\ audit' = Issued(audit, p, now)
    /\ kvRes' = [kvRes EXCEPT ![p] = NoResult]
    /\ UNCHANGED <<modules, memVars, clientVars, fbVars, storeVars>>

\* initKV(): the client once chosen; on the first call the KV client if
\* the environment configures it and it loads, otherwise null.
initKV ==
    IF kvInitialized THEN kv
    ELSE IF kvConfigured THEN "client"
    ELSE "null"

\* Mutant: the fallback message is logged by every initKV().
initKVLogsEveryCall == IF kvConfigured THEN 0 ELSE 1

\* The "Using in-memory fallback" messages initKV() logs: one when it
\* chooses the fallback, none once initialised.
initKVLogs ==
    IF kvInitialized THEN 0
    ELSE IF kvConfigured THEN 0
    ELSE 1

\* consumeRateLimit() of rateLimiter.ts (KV with fallback): the whole call
\* on the fallback, or up to the two reads it issues on the store.
KvfConsume(p, I) ==
    /\ "kvWithFallback" \in modules
    /\ call[p].pc = "idle"
    /\ \E now \in I, kvClient \in {initKV} :
        /\ now >= clock
        /\ clock' = now
        /\ kvInitialized' = TRUE
        /\ kv' = kvClient
        /\ degradationLogs' = degradationLogs + initKVLogs
        /\ IF kvClient = "null"
            THEN /\ FbApply(p, consumeRateLimitFallback(now, FbState))
                 /\ UNCHANGED call
            ELSE /\ call' = [call EXCEPT ![p] = KvStarted(now)]
                 /\ kvRes' = [kvRes EXCEPT ![p] = NoResult]
                 /\ audit' = Issued(audit, p, now)
                 /\ UNCHANGED fbVars
    /\ UNCHANGED <<modules, memVars, kvConfigured, storeVars>>

\* The store answers kv.get(minuteKey).
KvGetMinute(p) ==
    /\ call[p].pc = "get"
    /\ ~call[p].gotMinute
    /\ call' = [call EXCEPT ![p].gotMinute = TRUE,
                            ![p].minuteData = StoreGetMinute(clock)]
    /\ UNCHANGED routeVars
    /\ UNCHANGED <<clock, modules, memVars, clientVars, fbVars, storeVars,
                   kvRes, audit>>

\* The store answers kv.get(monthKey).
KvGetMonth(p) ==
    /\ call[p].pc = "get"
    /\ ~call[p].gotMonth
    /\ call' = [call EXCEPT ![p].gotMonth = TRUE,
                            ![p].monthCount = StoreGetMonth(call[p].monthKey, clock)]
    /\ UNCHANGED routeVars
    /\ UNCHANGED <<clock, modules, memVars, clientVars, fbVars, storeVars,
                   kvRes, audit>>

\* Both reads answered: the limits are checked; a denial returns, an
\* allowed call issues its two writes.
KvDecide(p, J) ==
    /\ call[p].pc = "get"
    /\ call[p].gotMinute /\ call[p].gotMonth
    /\ \E later \in J :
        /\ later >= clock
        /\ clock' = later
        /\ LET d == KvDecided(call[p], later)
           IN IF d.pc = "idle"
                THEN /\ call' = [call EXCEPT ![p] = Idle]
                     /\ kvRes' = [kvRes EXCEPT ![p] = d.res]
                ELSE /\ call' = [call EXCEPT ![p] = d]
                     /\ UNCHANGED kvRes
    /\ UNCHANGED routeVars
    /\ UNCHANGED <<modules, memVars, clientVars, fbVars, storeVars, audit>>

\* The store applies kv.set(minuteKey, {count, windowStart}, { ex: 60 }).
KvSetMinute(p) ==
    /\ call[p].pc = "set"
    /\ ~call[p].setMinute
    /\ kvMinute' = StoreSetMinute(call[p].newMinute, clock)
    /\ call' = [call EXCEPT ![p].setMinute = TRUE]
    /\ UNCHANGED routeVars
    /\ UNCHANGED <<clock, modules, memVars, clientVars, fbVars, kvMonth,
                   kvRes, audit>>

\* The store applies kv.set(monthKey, newMonthCount, { exat }).
KvSetMonth(p) ==
    /\ call[p].pc = "set"
    /\ ~call[p].setMonth
    /\ kvMonth' = [kvMonth EXCEPT ![call[p].monthKey] =
                      StoreSetMonth(call[p].newMonthCount, call[p].exat)]
    /\ call' = [call EXCEPT ![p].setMonth = TRUE]
    /\ UNCHANGED routeVars
    /\ UNCHANGED <<clock, modules, memVars, clientVars, fbVars, kvMinute,
                   kvRes, audit>>

\* Both writes applied: the call returns allowed.
KvReturn(p) ==
    /\ call[p].pc = "set"
    /\ call[p].setMinute /\ call[p].setMonth
    /\ kvRes' = [kvRes EXCEPT ![p] = call[p].res]
    /\ audit' = Audited(audit, call[p].now, call[p].newMinute.windowStart)
    /\ call' = [call EXCEPT ![p] = Idle]
    /\ UNCHANGED routeVars
    /\ UNCHANGED <<clock, modules, memVars, clientVars, fbVars, storeVars>>

\* ------------------------------------- the KV trackers' snapshot headers
\* The fallback branch of rateLimitSnapshotHeaders(): the headers of the
\* fallback counters as they are, no window resolved.
FbSnapshotHeaders(now, s) ==
    Headers(Max(0, MAX_PER_MINUTE - s.minuteCount),
            WindowResetEpochSeconds(s.minuteStart),
            Max(0, MAX_PER_MONTH - s.monthCount),
            nextMonthResetEpochSeconds(now))

\* rateLimitSnapshotHeaders() on the store up to the two reads it issues;
\* the month key is of the clock reading t.
KvSnapshotStarted(t) ==
    [pc |-> "snapshot", monthKey |-> getMonthKey(t),
     gotMinute |-> FALSE, minuteData |-> None,
     gotMonth |-> FALSE, monthCount |-> None]

\* The headers of the records read, the minute count taken as stored.
KvSnapshotHeaders(now, minuteData, monthCountRead) ==
    Headers(Max(0, MAX_PER_MINUTE -
                   (IF minuteData = None THEN 0 ELSE minuteData[1].count)),
            EpochSeconds(KvMinuteWindowStart(now, minuteData) + MINUTE_WINDOW_MS),
            Max(0, MAX_PER_MONTH - KvCurrentMonthCount(monthCountRead)),
            nextMonthResetEpochSeconds(now))

SnapshotResult(now, headers) ==
    Result("snapshot", now, FALSE, "none", None, headers, None, None)

\* rateLimitSnapshotHeaders() of rateLimiterKV.ts up to its two reads.
KvSnapshotBegin(p, I) ==
    /\ "kv" \in modules
    /\ call[p].pc = "idle"
    /\ \E t \in I :
        /\ t >= clock
        /\ clock' = t
        /\ call' = [call EXCEPT ![p] = KvSnapshotStarted(t)]
    /\ kvRes' = [kvRes EXCEPT ![p] = NoResult]
    /\ UNCHANGED <<modules, memVars, clientVars, fbVars, storeVars, audit>>

\* rateLimitSnapshotHeaders() of rateLimiter.ts (KV with fallback): the
\* whole call on the fallback, or up to the two reads it issues.
KvfSnapshot(p, I) ==
    /\ "kvWithFallback" \in modules
    /\ call[p].pc = "idle"
    /\ \E now \in I, kvClient \in {initKV} :
        /\ now >= clock
        /\ clock' = now
        /\ kvInitialized' = TRUE
        /\ kv' = kvClient
        /\ degradationLogs' = degradationLogs + initKVLogs
        /\ IF kvClient = "null"
            THEN /\ kvRes' = [kvRes EXCEPT ![p] =
                        SnapshotResult(now, FbSnapshotHeaders(now, FbState))]
                 /\ UNCHANGED call
            ELSE /\ call' = [call EXCEPT ![p] = KvSnapshotStarted(now)]
                 /\ kvRes' = [kvRes EXCEPT ![p] = NoResult]
    /\ UNCHANGED <<modules, memVars, kvConfigured, fbVars, storeVars, audit>>

\* The store answers the snapshot's kv.get(minuteKey).
KvSnapshotGetMinute(p) ==
    /\ call[p].pc = "snapshot"
    /\ ~call[p].gotMinute
    /\ call' = [call EXCEPT ![p].gotMinute = TRUE,
                            ![p].minuteData = StoreGetMinute(clock)]
    /\ UNCHANGED routeVars
    /\ UNCHANGED <<clock, modules, memVars, clientVars, fbVars, storeVars,
                   kvRes, audit>>

\* The store answers the snapshot's kv.get(monthKey).
KvSnapshotGetMonth(p) ==
    /\ call[p].pc = "snapshot"
    /\ ~call[p].gotMonth
    /\ call' = [call EXCEPT ![p].gotMonth = TRUE,
                            ![p].monthCount = StoreGetMonth(call[p].monthKey, clock)]
    /\ UNCHANGED routeVars
    /\ UNCHANGED <<clock, modules, memVars, clientVars, fbVars, storeVars,
                   kvRes, audit>>

\* Both reads answered: the snapshot reads the clock and returns its headers.
KvSnapshotReturn(p, J) ==
    /\ call[p].pc = "snapshot"
    /\ call[p].gotMinute /\ call[p].gotMonth
    /\ \E now \in J :
        /\ now >= clock
        /\ clock' = now
        /\ kvRes' = [kvRes EXCEPT ![p] =
              SnapshotResult(now, KvSnapshotHeaders(now, call[p].minuteData,
                                                    call[p].monthCount))]
    /\ call' = [call EXCEPT ![p] = Idle]
    /\ UNCHANGED routeVars
    /\ UNCHANGED <<modules, memVars, clientVars, fbVars, storeVars, audit>>

\* ------------------------------------------------------- store faults
\* Mutant: a store fault is taken for an allowed call.
ThrownAsAllowed(now) ==
    Result("consume", now, TRUE, "none", None, NoHeaders, Some(0), Some(0))

\* The outcome of a call whose promise rejects with the store's error:
\* neither module catches around its kv.get or kv.set.
Thrown(now) == Result("throw", now, FALSE, "none", None, NoHeaders, None, None)

\* A kv.get of caller p's consume or snapshot fails: Promise.all rejects
\* and so does the call.
KvGetFails(p) ==
    /\ call[p].pc \in {"get", "snapshot"}
    /\ ~(call[p].gotMinute /\ call[p].gotMonth)
    /\ call' = [call EXCEPT ![p] = Idle]
    /\ kvRes' = [kvRes EXCEPT ![p] = Thrown(clock)]
    /\ UNCHANGED routeVars
    /\ UNCHANGED <<clock, modules, memVars, clientVars, fbVars, storeVars,
                   audit>>

\* A kv.set of caller p's consume fails: Promise.all rejects and so does
\* the call.  The other write was issued with it: if the store has not
\* applied it yet, it is applied or fails as well.
KvSetFails(p) ==
    /\ call[p].pc = "set"
    /\ \E failed \in {"minute", "month"}, otherApplied \in BOOLEAN :
        /\ failed = "minute" => ~call[p].setMinute
        /\ failed = "month" => ~call[p].setMonth
        /\ kvMinute' =
              IF failed = "month" /\ ~call[p].setMinute /\ otherApplied
                  THEN StoreSetMinute(call[p].newMinute, clock)
                  ELSE kvMinute
        /\ kvMonth' =
              IF failed = "minute" /\ ~call[p].setMonth /\ otherApplied
                  THEN [kvMonth EXCEPT ![call[p].monthKey] =
                           StoreSetMonth(call[p].newMonthCount, call[p].exat)]
                  ELSE kvMonth
    /\ call' = [call EXCEPT ![p] = Idle]
    /\ kvRes' = [kvRes EXCEPT ![p] = Thrown(clock)]
    /\ UNCHANGED routeVars
    /\ UNCHANGED <<clock, modules, memVars, clientVars, fbVars, audit>>

\* ---------------------------------------------------- the route handlers
HOT_CACHE_TTL_MS == 60000

\* The bodies an upstream success yields, its failure statuses, and the id
\* parameters of a request to /api/indices-performance (None: no id).
Payloads == {"v1", "null", "false", "0", ""}
UpstreamErrors == {404, 503}
Ids == {<<"a">>}

\* A query-string value is a string, modelled as its sequence of characters.
\* The query of a request to /api/indices-performance: the values of its
\* id, limit and page parameters (None: the parameter is absent).
Query(id, limit, page) == [id |-> id, limit |-> limit, page |-> page]
NoQuery == Query(None, None, None)

\* searchParams.get("limit") ?? "50", searchParams.get("page") ?? "1"
limitOf(q) == IF q.limit = None THEN <<"5", "0">> ELSE q.limit[1]
pageOf(q) == IF q.page = None THEN <<"1">> ELSE q.page[1]

\* `id:${id}:limit:${limit}:page:${page}`
cacheKey(id, limit, page) ==
    <<"i", "d", ":">> \o id \o <<":", "l", "i", "m", "i", "t", ":">> \o limit
        \o <<":", "p", "a", "g", "e", ":">> \o page

KeyOf(q) == cacheKey(q.id[1], limitOf(q), pageOf(q))

\* The queries of the specifications: with or without an id; and three
\* whose values hold the characters of the key's separators.
DefaultQueries == {Query(id, None, None) : id \in {None} \cup {Some(i) : i \in Ids}}
SeparatorQueries ==
    {Query(Some(<<"a">>), Some(<<"1", ":", "l", "i", "m", "i", "t", ":", "2">>), None),
     Query(Some(<<"a", ":", "l", "i", "m", "i", "t", ":", "1">>), Some(<<"2">>), None),
     Query(Some(<<"a">>), Some(<<"2">>), None)}
Queries == DefaultQueries \cup SeparatorQueries
CacheKeys == {KeyOf(q) : q \in {r \in Queries : r.id # None}}

\* JavaScript truthiness of a payload ("null", "false", "0" and "" stand for
\* the falsy JSON values).
Truthy(data) == data \notin {"null", "false", "0", ""}

Response(status, headers, retryAfter, body) ==
    [status |-> status, headers |-> headers, retryAfter |-> retryAfter,
     body |-> body]

NoResponse == Response(0, NoHeaders, None, "none")

NoRequest == [pc |-> "idle"]

\* Mutant: the 429 never carries retry-after.
TooManyRequestsNoRetry(quota) ==
    Response(429, quota.headers, None,
             IF quota.reason = "minute"
                 THEN "Minute rate limit reached (20 req/min)."
                 ELSE "Monthly quota reached (500 calls/mo).")

\* The 429 response of either route: the retry-after header is set when
\* quota.retryAfterSeconds is truthy.
TooManyRequests(quota) ==
    Response(429, quota.headers,
             IF quota.retryAfterSeconds # None /\ quota.retryAfterSeconds[1] # 0
                 THEN quota.retryAfterSeconds ELSE None,
             IF quota.reason = "minute"
                 THEN "Minute rate limit reached (20 req/min)."
                 ELSE "Monthly quota reached (500 calls/mo).")

\* The observer counts the requests that passed the quota step of either
\* route in the 60,000 ms that begin with the first of them, and in the UTC
\* month.
Passed(t, now) ==
    LET fresh == t.winStart = 0 \/ now - t.winStart >= MINUTE_WINDOW_MS
    IN  [winStart |-> IF fresh THEN now ELSE t.winStart,
         winCount |-> IF fresh THEN 1 ELSE t.winCount + 1,
         month |-> getMonthKey(now),
         monCount |-> IF t.month = getMonthKey(now) THEN t.monCount + 1 ELSE 1]

\* What the handler does once its quota is known, at clock reading now,
\* with the cache entry it looks at: the 429, the cached payload, or the
\* upstream call.
AfterQuota(p, route, query, key, quota, now, hit, data) ==
    IF ~quota.allowed
        THEN /\ resp' = [resp EXCEPT ![p] = TooManyRequests(quota)]
             /\ req' = [req EXCEPT ![p] = NoRequest]
             /\ UNCHANGED through
    ELSE /\ through' = Passed(through, now)
         /\ IF hit
              THEN /\ resp' = [resp EXCEPT ![p] =
                                  Response(200, quota.headers, None, data)]
                   /\ req' = [req EXCEPT ![p] = NoRequest]
              ELSE /\ resp' = [resp EXCEPT ![p] = NoResponse]
                   /\ req' = [req EXCEPT ![p] =
                                 [pc |-> "fetch", route |-> route,
                                  query |-> query, key |-> key,
                                  headers |-> quota.headers]]

\* GET of /api/indices up to its upstream call: the handler calls the
\* in-memory tracker and looks at its cache in one synchronous run.
IndicesGET(p, I) ==
    /\ req[p].pc = "idle"
    /\ MemConsume(I)
    /\ AfterQuota(p, "indices", NoQuery, <<>>, memRes', clock',
                  /\ indicesCache.data # None
                  /\ Truthy(indicesCache.data[1])
                  /\ clock' - indicesCache.ts < HOT_CACHE_TTL_MS,
                  IF indicesCache.data = None THEN "none"
                  ELSE indicesCache.data[1])
    /\ connected' = [connected EXCEPT ![p] = TRUE]
    /\ UNCHANGED <<indicesCache, perfCache, recent, pending, twin, hookVars>>

\* Mutant: the handler begins consumeRateLimit() before it looks at the id.
PerfGETConsumesFirst(p, I, Q) ==
    /\ req[p].pc = "idle"
    /\ call[p].pc = "idle"
    /\ KvBegin(p, I)
    /\ \E q \in Q :
        IF q.id = None \/ q.id = Some(<<>>)
            THEN /\ resp' = [resp EXCEPT ![p] =
                                Response(400, NoHeaders, None, "id required")]
                 /\ UNCHANGED req
            ELSE /\ req' = [req EXCEPT ![p] =
                               [pc |-> "quota", route |-> "perf", query |-> q,
                                key |-> KeyOf(q),
                                cached |-> perfCache[KeyOf(q)]]]
                 /\ resp' = [resp EXCEPT ![p] = NoResponse]
    /\ connected' = [connected EXCEPT ![p] = TRUE]
    /\ UNCHANGED <<indicesCache, perfCache, through, recent, pending, twin,
                   hookVars>>

\* GET of /api/indices-performance up to its await of consumeRateLimit():
\* without an id (or with an empty one) the 400; otherwise the cache entry
\* is read and the call on the store begins.
PerfGET(p, I, Q) ==
    /\ req[p].pc = "idle"
    /\ call[p].pc = "idle"
    /\ \E q \in Q :
        IF q.id = None \/ q.id = Some(<<>>)
            THEN /\ resp' = [resp EXCEPT ![p] =
                                Response(400, NoHeaders, None, "id required")]
                 /\ UNCHANGED <<clock, modules, memVars, kvVars, audit, req>>
            ELSE /\ KvBegin(p, I)
                 /\ req' = [req EXCEPT ![p] =
                               [pc |-> "quota", route |-> "perf", query |-> q,
                                key |-> KeyOf(q),
                                cached |-> perfCache[KeyOf(q)]]]
                 /\ resp' = [resp EXCEPT ![p] = NoResponse]
    /\ connected' = [connected EXCEPT ![p] = TRUE]
    /\ UNCHANGED <<indicesCache, perfCache, through, recent, pending, twin,
                   hookVars>>

\* GET of /api/indices-performance from the result of consumeRateLimit() to
\* its upstream call; it looks at the entry it read before the await.
PerfResume(p, J) ==
    /\ req[p].pc = "quota"
    /\ call[p].pc = "idle"
    /\ kvRes[p].op = "consume"
    /\ \E now \in J :
        /\ now >= clock
        /\ clock' = now
        /\ AfterQuota(p, "perf", req[p].query, req[p].key, kvRes[p], now,
                      /\ req[p].cached # None
                      /\ now - req[p].cached[1].ts < HOT_CACHE_TTL_MS,
                      IF req[p].cached = None THEN "none"
                      ELSE req[p].cached[1].data)
    /\ UNCHANGED <<modules, memVars, kvVars, audit, indicesCache, perfCache,
                   recent, pending, twin, connected, hookVars>>

\* Mutant: the message names one status whatever the upstream answered.
UpstreamErrorMessageFixed(status) == "Upstream error: 503"

\* GET of /api/indices-performance when `await consumeRateLimit()` throws:
\* the handler has no catch, its promise rejects and the framework answers
\* 500.
PerfThrows(p) ==
    /\ req[p].pc = "quota"
    /\ call[p].pc = "idle"
    /\ kvRes[p].op = "throw"
    /\ resp' = [resp EXCEPT ![p] =
                    Response(500, NoHeaders, None, "Internal Server Error")]
    /\ req' = [req EXCEPT ![p] = NoRequest]
    /\ UNCHANGED <<clock, modules, memVars, kvVars, audit, indicesCache,
                   perfCache, through, recent, pending, twin, connected, hookVars>>

\* The message of the error response: `Upstream error: ${res.status}`.
UpstreamErrorMessage(status) ==
    CASE status = 404 -> "Upstream error: 404"
      [] status = 503 -> "Upstream error: 503"

\* The upstream's answer to the request on slot p, if a success, has a
\* JSON object as its payload.
AnswersObject(p) == resp'[p].status = 200 => Truthy(resp'[p].body)

\* The upstream answers the fetch of either route: a failure status is
\* passed on; a success is stored in the route's cache and returned.
UpstreamResponds(p, J) ==
    /\ req[p].pc = "fetch"
    /\ \E now \in J :
        /\ now >= clock
        /\ clock' = now
        /\ \/ \E status \in UpstreamErrors :
                /\ resp' = [resp EXCEPT ![p] =
                               Response(status, req[p].headers, None,
                                        UpstreamErrorMessage(status))]
                /\ UNCHANGED <<indicesCache, perfCache>>
           \/ \E data \in Payloads :
                /\ resp' = [resp EXCEPT ![p] =
                               Response(200, req[p].headers, None, data)]
                /\ IF req[p].route = "indices"
                     THEN /\ indicesCache' = [data |-> Some(data), ts |-> now]
                          /\ UNCHANGED perfCache
                     ELSE /\ perfCache' = [perfCache EXCEPT ![req[p].key] =
                                              Some([data |-> data, ts |-> now])]
                          /\ UNCHANGED indicesCache
    /\ req' = [req EXCEPT ![p] = NoRequest]
    /\ UNCHANGED <<modules, memVars, kvVars, audit, through, recent, pending, twin,
                   connected, hookVars>>

\* Mutant: a failed upstream call drops the route's cache entry.
UpstreamThrowsClearing(p, J) ==
    /\ req[p].pc = "fetch"
    /\ \E now \in J :
        /\ now >= clock
        /\ clock' = now
    /\ resp' = [resp EXCEPT ![p] =
                    Response(500, NoHeaders, None, "Internal Server Error")]
    /\ IF req[p].route = "indices"
         THEN /\ indicesCache' = [data |-> None, ts |-> 0]
              /\ UNCHANGED perfCache
         ELSE /\ perfCache' = [perfCache EXCEPT ![req[p].key] = None]
              /\ UNCHANGED indicesCache
    /\ req' = [req EXCEPT ![p] = NoRequest]
    /\ UNCHANGED <<modules, memVars, kvVars, audit, through, recent, pending, twin,
                   connected, hookVars>>

\* The upstream call of either route fails without an answer: fetch()
\* rejects (no connection, a timeout) or res.json() rejects (a body that is
\* not JSON).  Neither handler has a catch: its promise rejects and the
\* framework answers 500, without the handler's headers; the cache is as
\* it was.
UpstreamThrows(p, J) ==
    /\ req[p].pc = "fetch"
    /\ \E now \in J :
        /\ now >= clock
        /\ clock' = now
    /\ resp' = [resp EXCEPT ![p] =
                    Response(500, NoHeaders, None, "Internal Server Error")]
    /\ req' = [req EXCEPT ![p] = NoRequest]
    /\ UNCHANGED <<modules, memVars, kvVars, audit, indicesCache, perfCache,
                   through, recent, pending, twin, connected, hookVars>>

\* Mutant: a client that goes away gets its quota unit back.
ClientAbortsRefunding(p) ==
    /\ req[p].pc # "idle"
    /\ connected[p]
    /\ connected' = [connected EXCEPT ![p] = FALSE]
    /\ IF req[p].route = "indices"
         THEN /\ minuteCount' = minuteCount - 1
              /\ monthCount' = monthCount - 1
              /\ UNCHANGED <<minuteWindowStart, monthKey, memRes>>
         ELSE UNCHANGED memVars
    /\ UNCHANGED <<clock, modules, kvVars, audit, indicesCache, perfCache,
                   req, resp, through, recent, pending, twin, hookVars>>

\* The client of the request on slot p closes its connection while the
\* handler is at an await.  Neither handler reads req.signal or passes it
\* to fetch(), so nothing of the process changes.
ClientAborts(p) ==
    /\ req[p].pc # "idle"
    /\ connected[p]
    /\ connected' = [connected EXCEPT ![p] = FALSE]
    /\ UNCHANGED <<clock, modules, memVars, kvVars, audit, indicesCache,
                   perfCache, req, resp, through, recent, pending, twin, hookVars>>

\* ------------------------------------------------- the client's hooks
\* The two polling hooks of the dashboard: useIndices in Dashboard, mounted
\* with the page, and usePerformance in DetailPanel, mounted while a row is
\* open.
Hooks == {"useIndices", "usePerformance"}
refreshMs == 60000
SelectableIds == {0, 1}

\* `!id` of usePerformance: null and 0 are no id.
NoId(idArg) == idArg = None \/ idArg = Some(0)

\* The polling effect of useIndices, run at clock reading now after the
\* cleanup of its last run: the interval it leaves running.
useIndicesPolling(vis, wsOpt, now) ==
    IF ~vis \/ wsOpt THEN None ELSE Some(now + refreshMs)

\* The polling effect of usePerformance.
usePerformancePolling(vis, idArg, now) ==
    IF ~vis \/ NoId(idArg) THEN None ELSE Some(now + refreshMs)

\* A hook's state at mount, no request in flight.  pc is the await the
\* request in flight is at ("fetch": fetch(), "body": res.json()), status
\* the status of its response; data "rows" stands for a body's rows; an
\* error <<"message", S>> is the message of the body of a response with
\* status S, <<"HTTP", S>> the string `HTTP ${S}`.
NoFetch(h) ==
    [pc |-> "idle", status |-> 0, loading |-> (h = "useIndices"),
     data |-> "null", error |-> None, hasLoaded |-> FALSE]

\* The request in flight is aborted and runs to its end.  At fetch() the
\* rejection is an AbortError, which the catch passes over.  At res.json()
\* the rejection is caught by .catch(() => null), and the null body throws
\* Error(`HTTP ${res.status}`), which the catch block hands to setError.
\* finally: setLoading(false).
Aborted(f) ==
    IF f.pc = "idle" THEN f
    ELSE [f EXCEPT !.pc = "idle", !.status = 0, !.loading = FALSE,
                   !.error = IF f.pc = "body" THEN Some(<<"HTTP", f.status>>)
                             ELSE @]

\* fetchNow of hook h up to its await of fetch(), and the microtasks that
\* follow: the request in flight is aborted, the new request sets loading
\* (useIndices: to !hasLoadedRef.current) and is sent, and then the aborted
\* request's rejection runs its catch and finally blocks.
fetchNow(h, f) ==
    [Aborted(f) EXCEPT
        !.pc = "fetch",
        !.loading = IF f.pc # "idle" THEN FALSE
                    ELSE IF h = "useIndices" THEN ~f.hasLoaded
                    ELSE TRUE]

\* No running interval is overdue at clock reading now: timers fire on
\* time.
NoneOverdue(now) == \A h \in Hooks : timer[h] # None => now <= timer[h][1]

\* The browser loads the page, in the foreground or in a background tab:
\* Dashboard mounts, usePageVisibility starts from useState(true), and the
\* effects of useIndices run.
PageLoads(I) ==
    /\ ~mounted
    /\ \E now \in I, h \in BOOLEAN, w \in BOOLEAN :
        /\ now >= clock
        /\ clock' = now
        /\ mounted' = TRUE
        /\ documentHidden' = h
        /\ wsOption' = w
        /\ visible' = [k \in Hooks |-> TRUE]
        /\ timer' = [timer EXCEPT !["useIndices"] =
                         useIndicesPolling(TRUE, w, now)]
    /\ fetches' = [fetches EXCEPT !["useIndices"] = fetchNow("useIndices", @)]
    /\ UNCHANGED <<openId, lastPoll>>
    /\ UNCHANGED <<modules, memVars, kvVars, audit, indicesCache, perfCache,
                   req, resp, through, recent, pending, twin, connected>>

\* A visibilitychange event: each mounted hook's listener calls
\* setVisible(!document.hidden); a hook whose state changed re-renders, and
\* its polling effect is cleaned up and run again.
VisibilityChanges(I) ==
    /\ mounted
    /\ \E now \in I :
        /\ now >= clock
        /\ NoneOverdue(now)
        /\ clock' = now
        /\ documentHidden' = ~documentHidden
        /\ visible' = [visible EXCEPT
               !["useIndices"] = ~documentHidden',
               !["usePerformance"] =
                   IF openId = None THEN TRUE ELSE ~documentHidden']
        /\ timer' = [h \in Hooks |->
               IF visible'[h] = visible[h] THEN timer[h]
               ELSE IF h = "useIndices"
                   THEN useIndicesPolling(visible'[h], wsOption, now)
                   ELSE usePerformancePolling(visible'[h], openId, now)]
    /\ UNCHANGED <<mounted, wsOption, openId, lastPoll, fetches>>
    /\ UNCHANGED <<modules, memVars, kvVars, audit, indicesCache, perfCache,
                   req, resp, through, recent, pending, twin, connected>>

\* The user opens a row, opens another one or closes the panel (a click,
\* so the tab is in the foreground): DetailPanel mounts, re-renders with
\* another id or unmounts, and the polling effect of usePerformance is
\* cleaned up and, unless unmounted, run again.  The effect on [id,
\* fetchNow] is cleaned up too (the request in flight is aborted) and,
\* unless unmounted, run again: setData(null), setError(null), fetchNow(),
\* which returns at once for no id; the aborted request's catch and
\* finally blocks run after the effect.
SelectsId(I) ==
    /\ mounted
    /\ ~documentHidden
    /\ \E now \in I, idArg \in {None} \cup {Some(i) : i \in SelectableIds} :
        /\ now >= clock
        /\ NoneOverdue(now)
        /\ idArg # openId
        /\ clock' = now
        /\ openId' = idArg
        /\ visible' = [visible EXCEPT !["usePerformance"] = TRUE]
        /\ timer' = [timer EXCEPT !["usePerformance"] =
                         usePerformancePolling(TRUE, idArg, now)]
        /\ fetches' = [fetches EXCEPT !["usePerformance"] =
               IF idArg = None THEN NoFetch("usePerformance")
               ELSE IF NoId(idArg)
                   THEN Aborted([@ EXCEPT !.data = "null", !.error = None])
               ELSE fetchNow("usePerformance",
                             [@ EXCEPT !.data = "null", !.error = None])]
    /\ UNCHANGED <<mounted, documentHidden, wsOption, lastPoll>>
    /\ UNCHANGED <<modules, memVars, kvVars, audit, indicesCache, perfCache,
                   req, resp, through, recent, pending, twin, connected>>

\* The interval of hook h fires when due, not after maxDue: fetchNow runs
\* and the interval is due again refreshMs later.
IntervalFires(h, maxDue) ==
    /\ timer[h] # None
    /\ timer[h][1] <= maxDue
    /\ NoneOverdue(timer[h][1])
    /\ clock' = timer[h][1]
    /\ timer' = [timer EXCEPT ![h] = Some(timer[h][1] + refreshMs)]
    /\ lastPoll' = [lastPoll EXCEPT ![h] =
           Some([at |-> timer[h][1], hidden |-> documentHidden,
                 ws |-> wsOption, id |-> openId])]
    /\ fetches' = [fetches EXCEPT ![h] = fetchNow(h, @)]
    /\ UNCHANGED <<mounted, documentHidden, visible, wsOption, openId>>
    /\ UNCHANGED <<modules, memVars, kvVars, audit, indicesCache, perfCache,
                   req, resp, through, recent, pending, twin, connected>>

\* A click on the Refresh button of the dashboard or of the open panel:
\* refetch, which is fetchNow.
Refetch(h) ==
    /\ mounted
    /\ ~documentHidden
    /\ h = "usePerformance" => openId # None /\ ~NoId(openId)
    /\ fetches' = [fetches EXCEPT ![h] = fetchNow(h, @)]
    /\ UNCHANGED <<mounted, documentHidden, visible, wsOption, openId, timer,
                   lastPoll>>
    /\ UNCHANGED <<clock, modules, memVars, kvVars, audit, indicesCache,
                   perfCache, req, resp, through, recent, pending, twin,
                   connected>>

\* The response to the request of hook h arrives: fetch() resolves with
\* status S and the request goes on to read the body.
HeadersArrive(h, S) ==
    /\ fetches[h].pc = "fetch"
    /\ \E status \in S :
        fetches' = [fetches EXCEPT ![h].pc = "body", ![h].status = status]
    /\ UNCHANGED <<mounted, documentHidden, visible, wsOption, openId, timer,
                   lastPoll>>
    /\ UNCHANGED <<clock, modules, memVars, kvVars, audit, indicesCache,
                   perfCache, req, resp, through, recent, pending, twin,
                   connected>>

\* The body of the response has been read: a success is shown (setData,
\* setError(null); useIndices sets hasLoadedRef), the message of any other
\* response is handed to setError.  finally: setLoading(false).
BodyRead(h) ==
    /\ fetches[h].pc = "body"
    /\ fetches' = [fetches EXCEPT ![h] =
           IF @.status = 200
               THEN [@ EXCEPT !.pc = "idle", !.status = 0, !.loading = FALSE,
                              !.data = "rows", !.error = None,
                              !.hasLoaded = (h = "useIndices")]
               ELSE [@ EXCEPT !.pc = "idle", !.status = 0, !.loading = FALSE,
                              !.error = Some(<<"message",
                                               fetches[h].status>>)]]
    /\ UNCHANGED <<mounted, documentHidden, visible, wsOption, openId, timer,
                   lastPoll>>
    /\ UNCHANGED <<clock, modules, memVars, kvVars, audit, indicesCache,
                   perfCache, req, resp, through, recent, pending, twin,
                   connected>>

\* ------------------------------------------------------ specifications
\* The state at process start.  The module counters are the values of their
\* declarations.  The store outlives the process and is shared with other
\* instances: minutePre and monthPre are the counts their allowed calls left
\* in the minute record (of a window begun at StartMs) and under this
\* month's key (None: no record); the observer has counted those calls.
InitWith(loads, minutePreloads, monthPreloads) ==
    /\ clock = StartMs
    /\ modules \in loads
    /\ kvConfigured \in
          IF "kv" \in modules THEN {TRUE}
          ELSE IF "kvWithFallback" \in modules THEN BOOLEAN
          ELSE {FALSE}
    /\ minuteWindowStart = 0
    /\ minuteCount = 0
    /\ monthKey = None
    /\ monthCount = 0
    /\ memRes = NoResult
    /\ kvInitialized = FALSE
    /\ degradationLogs = 0
    /\ kv = "null"
    /\ fallbackMinuteStart = 0
    /\ fallbackMinuteCount = 0
    /\ fallbackMonthKey = None
    /\ fallbackMonthCount = 0
    /\ \E minutePre \in (IF kvConfigured THEN minutePreloads ELSE {None}),
          monthPre \in (IF kvConfigured THEN monthPreloads ELSE {None}) :
        /\ kvMinute =
              IF minutePre = None THEN None
              ELSE StoreSetMinute([count |-> minutePre[1],
                                   windowStart |-> StartMs], StartMs)
        /\ kvMonth =
              [k \in MonthKeys |->
                  IF k = getMonthKey(StartMs) /\ monthPre # None
                      THEN StoreSetMonth(monthPre[1],
                                         nextMonthResetEpochSeconds(StartMs))
                      ELSE None]
        /\ audit =
              [winStart |-> IF minutePre = None THEN 0 ELSE StartMs,
               winAllowed |-> IF minutePre = None THEN 0 ELSE minutePre[1],
               month |-> IF monthPre = None THEN None ELSE getMonthKey(StartMs),
               monAllowed |-> IF monthPre = None THEN 0 ELSE monthPre[1],
               atCap |-> [p \in Callers |-> FALSE]]
    /\ call = [p \in Callers |-> Idle]
    /\ kvRes = [p \in Callers |-> NoResult]
    /\ indicesCache = [data |-> None, ts |-> 0]
    /\ perfCache = [key \in CacheKeys |-> None]
    /\ req = [p \in Callers |-> NoRequest]
    /\ resp = [p \in Callers |-> NoResponse]
    /\ through = [winStart |-> 0, winCount |-> 0, month |-> None, monCount |-> 0]
    /\ recent = <<>>
    /\ pending = None
    /\ twin = [state |-> MemState, res |-> NoResult]
    /\ connected = [p \in Callers |-> TRUE]
    /\ mounted = FALSE
    /\ documentHidden = FALSE
    /\ visible = [h \in Hooks |-> TRUE]
    /\ wsOption = FALSE
    /\ openId = None
    /\ timer = [h \in Hooks |-> None]
    /\ lastPoll = [h \in Hooks |-> None]
    /\ fetches = [h \in Hooks |-> NoFetch(h)]

\* A call of the specifications that reach the month cap comes at the last
\* clock reading or one minute window later; an await of theirs ends within
\* the instant.
NearMonthInstants ==
    {t \in MonthInstants : t <= clock + MINUTE_WINDOW_MS}

\* An await ends at the clock reading it began at or at the next instant.
SoonInstants(I) ==
    {t \in I : t >= clock /\ \A u \in I : u > clock => t <= u}

\* The clock readings of the specification of concurrent callers: the
\* first and the last millisecond of one minute window.
RaceInstants == {StartMs, StartMs + MINUTE_WINDOW_MS - 1}

\* The in-memory tracker alone, called and snapshot at the fine instants.
MemConsumeFine == MemConsume(FineInstants) /\ UNCHANGED routeVars
NextMem ==
    \/ MemConsumeFine
    \/ MemSnapshot(FineInstants) /\ UNCHANGED routeVars
SpecMem == InitWith({{"memory"}}, {None}, {None}) /\ [][NextMem]_vars

\* Either module, one caller at a time, at the fine instants; an await ends
\* within the instant.
NextSeq ==
    \/ MemConsumeFine
    \/ KvfConsume(1, FineInstants) /\ UNCHANGED routeVars
    \/ KvGetMinute(1)
    \/ KvGetMonth(1)
    \/ KvDecide(1, {clock})
    \/ KvSetMinute(1)
    \/ KvSetMonth(1)
    \/ KvReturn(1)
SpecSeq ==
    InitWith({{"memory"}, {"kvWithFallback"}}, {None}, {None})
        /\ [][NextSeq]_vars

\* Either module, one caller at a time, one instant per minute window, far
\* enough to spend the month's quota.  The in-memory counters start at 0;
\* the store starts a window and a call short of the month cap.
PreloadedMonthCount == MAX_PER_MONTH - (MAX_PER_MINUTE + 1)
NextSeqMonth ==
    \/ MemConsume(NearMonthInstants) /\ UNCHANGED routeVars
    \/ KvfConsume(1, NearMonthInstants) /\ UNCHANGED routeVars
    \/ KvGetMinute(1)
    \/ KvGetMonth(1)
    \/ KvDecide(1, {clock})
    \/ KvSetMinute(1)
    \/ KvSetMonth(1)
    \/ KvReturn(1)
SpecSeqMonth ==
    InitWith({{"memory"}, {"kvWithFallback"}}, {None},
             {Some(PreloadedMonthCount)})
        /\ [][NextSeqMonth]_vars

\* rateLimiterKV.ts with concurrent callers: the steps of their calls
\* interleave, and time may pass during an await.  Earlier calls have left
\* one or two units of the minute quota, and one unit of the month quota or
\* all but MAX_PER_MINUTE - 1.
NextRace ==
    \E p \in Callers :
        \/ KvBegin(p, RaceInstants) /\ UNCHANGED routeVars
        \/ KvGetMinute(p)
        \/ KvGetMonth(p)
        \/ KvDecide(p, SoonInstants(RaceInstants))
        \/ KvSetMinute(p)
        \/ KvSetMonth(p)
        \/ KvReturn(p)
SpecRace ==
    InitWith({{"kv"}}, {Some(MAX_PER_MINUTE - 2), Some(MAX_PER_MINUTE - 1)},
             {Some(MAX_PER_MINUTE - 1), Some(MAX_PER_MONTH - 1)})
        /\ [][NextRace]_vars

\* Any of the three trackers, consumed and snapshot by one caller at a time
\* at the first and last millisecond of two minute windows; an await of the
\* snapshot may end at the next instant.
SnapInstants ==
    {StartMs + k * MINUTE_WINDOW_MS + o :
        k \in 0..MaxWindows, o \in {0, MINUTE_WINDOW_MS - 1}}
MemSnapshotSnap == MemSnapshot(SnapInstants) /\ UNCHANGED routeVars
KvfSnapshotSnap == KvfSnapshot(1, SnapInstants) /\ UNCHANGED routeVars
KvSnapshotBeginSnap == KvSnapshotBegin(1, SnapInstants) /\ UNCHANGED routeVars
KvSnapshotReturnSnap == KvSnapshotReturn(1, SoonInstants(SnapInstants))
NextSnap ==
    \/ MemConsume(SnapInstants) /\ UNCHANGED routeVars
    \/ MemSnapshotSnap
    \/ KvfConsume(1, SnapInstants) /\ UNCHANGED routeVars
    \/ KvfSnapshotSnap
    \/ KvBegin(1, SnapInstants) /\ UNCHANGED routeVars
    \/ KvSnapshotBeginSnap
    \/ KvGetMinute(1)
    \/ KvGetMonth(1)
    \/ KvDecide(1, {clock})
    \/ KvSetMinute(1)
    \/ KvSetMonth(1)
    \/ KvReturn(1)
    \/ KvSnapshotGetMinute(1)
    \/ KvSnapshotGetMonth(1)
    \/ KvSnapshotReturnSnap
SpecSnap ==
    InitWith({{"memory"}, {"kvWithFallback"}, {"kv"}}, {None}, {None})
        /\ [][NextSnap]_vars

\* The two routes of one process: /api/indices on request slot 1 (on the
\* in-memory tracker) and /api/indices-performance on request slot 2 (on
\* rateLimiterKV.ts; other instances have left one unit of the store's
\* minute quota); requests of the two routes overlap, within one minute
\* window.
RouteInstants == {StartMs, StartMs + MINUTE_WINDOW_MS - 1}
InitRoutes ==
    InitWith({{"memory", "kv"}}, {Some(MAX_PER_MINUTE - 1)},
             {Some(MAX_PER_MINUTE - 1)})
NextRoutes ==
    \/ IndicesGET(1, RouteInstants)
    \/ PerfGET(2, RouteInstants, DefaultQueries)
    \/ KvGetMinute(2)
    \/ KvGetMonth(2)
    \/ KvDecide(2, {clock})
    \/ KvSetMinute(2)
    \/ KvSetMonth(2)
    \/ KvReturn(2)
    \/ PerfResume(2, {clock})
    \/ \E p \in Callers :
        /\ UpstreamResponds(p, SoonInstants(RouteInstants))
        /\ AnswersObject(p)
SpecRoutes == InitRoutes /\ [][NextRoutes]_vars

\* One route of a process, far enough to spend the month's quota:
\* /api/indices on request slot 1 from counters at 0, or
\* /api/indices-performance on request slot 2 with the store one call short
\* of the month cap.  The client sends its requests one after the other and
\* lets a minute window pass only after a 429; an await ends within the
\* instant.
BackoffInstants ==
    {t \in MonthInstants :
        \/ t = clock
        \/ t = clock + MINUTE_WINDOW_MS /\ \E p \in Callers : resp[p].status = 429}
IndicesRequestMonth == IndicesGET(1, BackoffInstants)
PerfRequestMonth == PerfGET(2, BackoffInstants, DefaultQueries)
PerfQuotaKnownMonth == PerfResume(2, {clock})
NextRoutesMonth ==
    \/ IndicesRequestMonth
    \/ PerfRequestMonth
    \/ KvGetMinute(2)
    \/ KvGetMonth(2)
    \/ KvDecide(2, {clock})
    \/ KvSetMinute(2)
    \/ KvSetMonth(2)
    \/ KvReturn(2)
    \/ PerfQuotaKnownMonth
    \/ \E p \in Callers : UpstreamResponds(p, {clock})
SpecRoutesMonth ==
    InitWith({{"memory"}, {"kv"}}, {None}, {Some(MAX_PER_MONTH - 1)})
        /\ [][NextRoutesMonth]_vars

\* Two requests to /api/indices-performance in one process whose handlers
\* interleave at their awaits, the store two calls short of the minute cap.
PerfRacePreload == MAX_PER_MINUTE - 2
PerfRequestRace(p) == PerfGET(p, RouteInstants, DefaultQueries)
PerfQuotaKnownRace(p) == PerfResume(p, {clock})
UpstreamAnswerRace(p) ==
    UpstreamResponds(p, SoonInstants(RouteInstants)) /\ AnswersObject(p)
NextPerfRace ==
    \E p \in Callers :
        \/ PerfRequestRace(p)
        \/ KvGetMinute(p)
        \/ KvGetMonth(p)
        \/ KvDecide(p, {clock})
        \/ KvSetMinute(p)
        \/ KvSetMonth(p)
        \/ KvReturn(p)
        \/ PerfQuotaKnownRace(p)
        \/ UpstreamAnswerRace(p)
SpecPerfRace ==
    InitWith({{"kv"}}, {Some(PerfRacePreload)}, {Some(PerfRacePreload)})
        /\ [][NextPerfRace]_vars

\* Two requests to /api/indices-performance in one process, their
\* parameter values holding the characters of the key's separators, all at
\* one clock reading.
NextKeys ==
    \E p \in Callers :
        \/ PerfGET(p, {clock}, SeparatorQueries)
        \/ KvGetMinute(p)
        \/ KvGetMonth(p)
        \/ KvDecide(p, {clock})
        \/ KvSetMinute(p)
        \/ KvSetMonth(p)
        \/ KvReturn(p)
        \/ PerfResume(p, {clock})
        \/ UpstreamResponds(p, {clock}) /\ AnswersObject(p)
SpecKeys ==
    InitWith({{"kv"}}, {Some(MAX_PER_MINUTE - 1)}, {Some(MAX_PER_MINUTE - 1)})
        /\ [][NextKeys]_vars

\* The in-memory tracker alone, called one call after the other at the
\* first and the last millisecond of its minute windows.
NextSliding ==
    /\ MemConsume(SnapInstants)
    /\ recent' = Recently(recent, memRes')
    /\ pending' = pending
    /\ twin' = twin
    /\ UNCHANGED <<indicesCache, perfCache, req, resp, through, connected,
                   hookVars>>
SpecSliding == InitWith({{"memory"}}, {None}, {None}) /\ [][NextSliding]_vars

\* The three trackers, each alone and one call after the other, at clock
\* readings that differ in their millisecond part: a window opened at
\* .999 s, calls at the next whole second, and the instants about one
\* window later.
RetryInstants ==
    {StartMs + 999, StartMs + 1000, StartMs + MINUTE_WINDOW_MS,
     StartMs + MINUTE_WINDOW_MS + 999, StartMs + MINUTE_WINDOW_MS + 1000}
NextRetry ==
    \/ MemConsume(RetryInstants) /\ UNCHANGED routeVars
    \/ KvfConsume(1, RetryInstants) /\ UNCHANGED routeVars
    \/ KvGetMinute(1)
    \/ KvGetMonth(1)
    \/ KvDecide(1, {clock})
    \/ KvSetMinute(1)
    \/ KvSetMonth(1)
    \/ KvReturn(1)
SpecRetry ==
    InitWith({{"memory"}, {"kvWithFallback"}}, {None}, {None})
        /\ [][NextRetry]_vars

\* The two routes of one process, as in SpecRoutes, with clients that may
\* close their connection while their request is in progress.
NextAbandon == NextRoutes \/ \E p \in Callers : ClientAborts(p)
SpecAbandon == InitRoutes /\ [][NextAbandon]_vars

\* One browser tab with the dashboard, over a few refresh periods; events
\* come at the start, the middle and the end of a period.
MaxPolls == 3
PollInstants ==
    {StartMs + k * (refreshMs \div 2) : k \in 0..(2 * MaxPolls)}
NextPolling ==
    \/ PageLoads({StartMs})
    \/ VisibilityChanges(PollInstants)
    \/ SelectsId(PollInstants)
    \/ \E h \in Hooks : IntervalFires(h, StartMs + MaxPolls * refreshMs)
SpecPolling ==
    InitWith({{"memory"}}, {None}, {None}) /\ [][NextPolling]_vars

\* One browser tab with the dashboard over one refresh period: the user
\* opens and closes rows and clicks Refresh, and the responses, successes
\* and 429s, arrive at any moment.
NextFetching ==
    \/ PageLoads({StartMs})
    \/ SelectsId({StartMs, StartMs + refreshMs})
    \/ \E h \in Hooks :
        \/ IntervalFires(h, StartMs + refreshMs)
        \/ Refetch(h)
        \/ HeadersArrive(h, {200, 429})
        \/ BodyRead(h)
SpecFetching ==
    InitWith({{"memory"}}, {None}, {None}) /\ [][NextFetching]_vars

\* One caller drives the in-memory tracker and rateLimiterKV.ts, on an
\* empty store, with the same calls: each call is made on the in-memory
\* tracker and then, at the same clock reading, on the store.  The caller
\* calls again at once, or at any later instant after a denial; the
\* instants are one per minute window up to the month boundary, the last
\* second of the month and the 60th second of the next.
NextCallInstants ==
    {t \in MonthInstants \cup {MonthBoundaryMs - 1000, MonthBoundaryMs + 59000} :
        t = clock \/ (t > clock /\ memRes.op = "consume" /\ ~memRes.allowed)}
NextBoth ==
    \/ /\ pending = None
       /\ call[1].pc = "idle"
       /\ kvRes[1].op = "consume" \/ memRes.op = "none"
       /\ MemConsume(NextCallInstants)
       /\ pending' = Some(clock')
       /\ UNCHANGED <<indicesCache, perfCache, req, resp, through, recent, twin,
                      connected, hookVars>>
    \/ /\ pending # None
       /\ KvBegin(1, {pending[1]})
       /\ pending' = None
       /\ UNCHANGED <<indicesCache, perfCache, req, resp, through, recent, twin,
                      connected, hookVars>>
    \/ KvGetMinute(1)
    \/ KvGetMonth(1)
    \/ KvDecide(1, {clock})
    \/ KvSetMinute(1)
    \/ KvSetMonth(1)
    \/ KvReturn(1)
SpecBoth ==
    InitWith({{"memory", "kv"}}, {None}, {None}) /\ [][NextBoth]_vars

\* The two routes of one process, as in SpecRoutes, with an upstream that
\* may also fail without an answer.
NextUpstream ==
    \/ NextRoutes
    \/ \E p \in Callers : UpstreamThrows(p, SoonInstants(RouteInstants))
SpecUpstream == InitRoutes /\ [][NextUpstream]_vars

\* Two interleaving requests to /api/indices-performance, as in
\* SpecPerfRace, with an upstream that may also fail without an answer: the
\* later answer of two overlapping fetches overwrites the entry of the
\* earlier one.
NextStore ==
    \/ NextPerfRace
    \/ \E p \in Callers : UpstreamThrows(p, SoonInstants(RouteInstants))
SpecStore ==
    InitWith({{"kv"}}, {Some(PerfRacePreload)}, {Some(PerfRacePreload)})
        /\ [][NextStore]_vars

\* The in-memory tracker beside its twin: both are sent each consume()
\* call at the same clock reading, the tracker alone is sent the
\* rateLimitSnapshotHeaders() calls.
TwinInstants == {StartMs, StartMs + 1000, StartMs + MINUTE_WINDOW_MS}
NextTwin ==
    \/ /\ MemConsume(TwinInstants)
       /\ twin' = MemConsumeOutcome(clock', twin.state)
       /\ UNCHANGED <<indicesCache, perfCache, req, resp, through, recent,
                      pending, connected, hookVars>>
    \/ MemSnapshot(TwinInstants) /\ UNCHANGED routeVars
SpecTwin == InitWith({{"memory"}}, {None}, {None}) /\ [][NextTwin]_vars

\* A failed write whose other write is applied raises one stored count
\* alone: the specifications with store faults stop the writes from failing
\* once the month record is MaxFaultyWrites above its initial count.
MaxFaultyWrites == 2
KvSetFailsBounded(p) ==
    /\ KvCurrentMonthCount(StoreGetMonth(getMonthKey(clock), clock))
          < PerfRacePreload + MaxFaultyWrites
    /\ KvSetFails(p)

\* /api/indices-performance on request slot 2, one request at a time, on a
\* store whose reads and writes can fail.
NextFault ==
    \/ PerfGET(2, RouteInstants, DefaultQueries)
    \/ KvGetMinute(2)
    \/ KvGetMonth(2)
    \/ KvGetFails(2)
    \/ KvDecide(2, {clock})
    \/ KvSetMinute(2)
    \/ KvSetMonth(2)
    \/ KvSetFailsBounded(2)
    \/ KvReturn(2)
    \/ PerfResume(2, {clock})
    \/ PerfThrows(2)
    \/ UpstreamResponds(2, SoonInstants(RouteInstants)) /\ AnswersObject(2)
SpecFault ==
    InitWith({{"kv"}}, {Some(PerfRacePreload)}, {Some(PerfRacePreload)})
        /\ [][NextFault]_vars

\* The KV tracker with fallback, consumed and snapshot one call at a time,
\* with or without a configured store, the store's reads and writes failing
\* at times.
NextBackend ==
    \/ KvfConsume(1, RouteInstants) /\ UNCHANGED routeVars
    \/ KvfSnapshot(1, RouteInstants) /\ UNCHANGED routeVars
    \/ KvGetMinute(1)
    \/ KvGetMonth(1)
    \/ KvGetFails(1)
    \/ KvDecide(1, {clock})
    \/ KvSetMinute(1)
    \/ KvSetMonth(1)
    \/ KvSetFailsBounded(1)
    \/ KvReturn(1)
    \/ KvSnapshotGetMinute(1)
    \/ KvSnapshotGetMonth(1)
    \/ KvSnapshotReturn(1, {clock})
SpecBackend ==
    InitWith({{"kvWithFallback"}}, {Some(PerfRacePreload)},
             {Some(PerfRacePreload)})
        /\ [][NextBackend]_vars

\* -------------------------------------------------------------- claims
\* A step delivered the result r2 of a consume() call (r before the step).
Delivered(r, r2) == r2 # r /\ r2.op = "consume"

\* The calls the observer saw allowed in the window begun at windowStart.
AllowedInWindow(windowStart) ==
    IF audit.winStart = windowStart THEN audit.winAllowed ELSE 0

\* The calls the observer saw allowed in the UTC month of t.
AllowedInMonth(t) ==
    IF audit.month = getMonthKey(t) THEN audit.monAllowed ELSE 0

\* C1: in the in-memory tracker, after any sequence of consume() and
\* snapshot calls at non-decreasing times, minuteCount never exceeds 20, and
\* at most 20 consume() calls are allowed between a window's start and
\* windowStart + 60,000 ms: every allowed call falls in the window the
\* tracker holds, no more than 20 are allowed in it, and a window is only
\* replaced once it has lasted 60,000 ms.
C1_MinuteCapInMemory ==
    /\ [](/\ minuteCount <= MAX_PER_MINUTE
          /\ audit.winAllowed <= MAX_PER_MINUTE
          /\ memRes.allowed =>
                /\ audit.winStart = minuteWindowStart
                /\ minuteWindowStart <= memRes.now
                /\ memRes.now < minuteWindowStart + MINUTE_WINDOW_MS)
    /\ [][minuteWindowStart # 0 /\ minuteWindowStart' # minuteWindowStart
            => minuteWindowStart' >= minuteWindowStart + MINUTE_WINDOW_MS]_vars

\* C1's case: 20 calls were allowed in the window and a later call in the
\* same window was denied.
C1_Witness ==
    /\ audit.winAllowed = MAX_PER_MINUTE
    /\ minuteCount = MAX_PER_MINUTE
    /\ memRes.op = "consume" /\ ~memRes.allowed
    /\ memRes.now > minuteWindowStart

\* C2: with the shared-store tracker, under every interleaving of the get
\* and set steps of concurrent consume() calls, at most 20 calls are allowed
\* in one minute window and at most 500 in one month (two callers racing for
\* the last unit are never both allowed).
C2_NoOverAllowanceUnderRace ==
    /\ audit.winAllowed <= MAX_PER_MINUTE
    /\ audit.monAllowed <= MAX_PER_MONTH

\* C5: in the in-memory tracker, while fewer than 20 calls have been
\* allowed in the current window (or the window is fresh) and the month has
\* capacity, consume() is allowed, and the remaining-minute header of the
\* k-th allowed call of a window is 20 - k.
C5_FirstTwentyAllowed ==
    /\ [](memRes.op = "consume" /\ memRes.allowed =>
            /\ audit.winAllowed \in 1..MAX_PER_MINUTE
            /\ memRes.headers.remainingMinute = MAX_PER_MINUTE - audit.winAllowed)
    /\ [][(/\ Delivered(memRes, memRes')
           /\ \/ minuteWindowStart = 0
              \/ clock' - minuteWindowStart >= MINUTE_WINDOW_MS
              \/ AllowedInWindow(minuteWindowStart) < MAX_PER_MINUTE
           /\ AllowedInMonth(clock') < MAX_PER_MONTH)
            => memRes'.allowed]_vars

\* C5's case: the 20th call of a window was allowed and reported 0.
C5_Witness ==
    /\ memRes.op = "consume" /\ memRes.allowed
    /\ audit.winAllowed = MAX_PER_MINUTE
    /\ memRes.headers.remainingMinute = 0

\* The counts each tracker holds for the minute window and the UTC month
\* that the clock reading now falls in.
MemMinuteCountAt(now) ==
    IF minuteWindowStart = 0 \/ now - minuteWindowStart >= MINUTE_WINDOW_MS
        THEN 0 ELSE minuteCount
MemMonthCountAt(now) == IF monthKey = getMonthKey(now) THEN monthCount ELSE 0
FbMinuteCountAt(now) ==
    IF fallbackMinuteStart = 0 \/ now - fallbackMinuteStart >= MINUTE_WINDOW_MS
        THEN 0 ELSE fallbackMinuteCount
FbMonthCountAt(now) ==
    IF fallbackMonthKey = getMonthKey(now) THEN fallbackMonthCount ELSE 0
KvMinuteCountAt(now) == KvCurrentMinuteCount(now, StoreGetMinute(clock))
KvMonthCountAt(now) ==
    KvCurrentMonthCount(StoreGetMonth(getMonthKey(now), clock))

\* Caller p's call on the store passes its limit checks in this step.
KvDecides(p) == call[p].pc = "get" /\ call'[p].pc # "get"

\* Caller p's call ran on the fallback in this step.
FbDelivered(p) == Delivered(kvRes[p], kvRes'[p]) /\ kv' = "null"

MonthDenial(r) ==
    ~r.allowed /\ r.reason = "month" /\ r.retryAfterSeconds = None

MinuteDenial(r) ==
    ~r.allowed /\ r.reason = "minute" /\ r.retryAfterSeconds # None

C6_HeadersAfterIncrement ==
    kvRes[1].op = "consume" /\ kvRes[1].allowed =>
        /\ kvRes[1].headers.remainingMinute = MAX_PER_MINUTE - audit.winAllowed
        /\ kvRes[1].headers.remainingMonth =
              MAX_PER_MONTH - (IF kv = "null"
                                  THEN FbMonthCountAt(kvRes[1].now)
                                  ELSE KvMonthCountAt(kvRes[1].now))

\* C7: after 20 allowed consume() calls in one minute window, every further
\* consume() issued before windowStart + 60,000 ms is denied with reason
\* "minute" and a retryAfterSeconds in 1..60, on every tracker (here the
\* shared-store tracker with concurrent callers).
C7_DeniedOnceCapReached ==
    \A p \in Callers :
        audit.atCap[p] /\ kvRes[p].op = "consume" =>
            /\ MinuteDenial(kvRes[p])
            /\ kvRes[p].retryAfterSeconds[1] \in 1..60

\* C8: a consume() issued when now - windowStart >= 60,000 ms, with month
\* capacity available, is allowed whatever the previous window's count,
\* starts a new window at now with count 1, and reports remaining-minute 19.
C8_ExpiredWindowStartsAfresh ==
    /\ [][(/\ Delivered(memRes, memRes')
           /\ minuteWindowStart # 0
           /\ clock' - minuteWindowStart >= MINUTE_WINDOW_MS
           /\ MemMonthCountAt(clock') < MAX_PER_MONTH)
            => /\ memRes'.allowed
               /\ minuteWindowStart' = clock' /\ minuteCount' = 1
               /\ memRes'.headers.remainingMinute = MAX_PER_MINUTE - 1]_vars
    /\ [][(/\ FbDelivered(1)
           /\ fallbackMinuteStart # 0
           /\ clock' - fallbackMinuteStart >= MINUTE_WINDOW_MS
           /\ FbMonthCountAt(clock') < MAX_PER_MONTH)
            => /\ kvRes'[1].allowed
               /\ fallbackMinuteStart' = clock' /\ fallbackMinuteCount' = 1
               /\ kvRes'[1].headers.remainingMinute = MAX_PER_MINUTE - 1]_vars
    /\ [][(/\ KvDecides(1)
           /\ StoreGetMinute(clock) # None
           /\ call[1].now - StoreGetMinute(clock)[1].windowStart
                 >= MINUTE_WINDOW_MS
           /\ KvMonthCountAt(call[1].now) < MAX_PER_MONTH)
            => /\ call'[1].pc = "set"
               /\ call'[1].newMinute =
                     [count |-> 1, windowStart |-> call[1].now]
               /\ call'[1].res.allowed
               /\ call'[1].res.headers.remainingMinute = MAX_PER_MINUTE - 1]_vars

\* C9: the month count is reset to 0 exactly when the UTC year-month of the
\* call differs from the stored month key and a minute rollover leaves it
\* alone, so that the month count equals the number of consume() calls
\* allowed so far in the current UTC month (here the shared-store tracker,
\* whenever no call is in progress).
C9_MonthCountIsAllowedCount ==
    (\A p \in Callers : call[p].pc = "idle") =>
        KvMonthCountAt(clock) = AllowedInMonth(clock)

\* C10: a consume() that finds the minute count of its window at 20 or more
\* and the month count at 500 or more is denied with reason "minute", never
\* "month", and carries retryAfterSeconds.
C10_MinuteReasonFirst ==
    /\ [][(/\ Delivered(memRes, memRes')
           /\ MemMinuteCountAt(clock') >= MAX_PER_MINUTE
           /\ MemMonthCountAt(clock') >= MAX_PER_MONTH)
            => MinuteDenial(memRes')]_vars
    /\ [][(/\ FbDelivered(1)
           /\ FbMinuteCountAt(clock') >= MAX_PER_MINUTE
           /\ FbMonthCountAt(clock') >= MAX_PER_MONTH)
            => MinuteDenial(kvRes'[1])]_vars
    /\ [][(/\ KvDecides(1)
           /\ KvMinuteCountAt(call[1].now) >= MAX_PER_MINUTE
           /\ KvMonthCountAt(call[1].now) >= MAX_PER_MONTH)
            => call'[1].pc = "idle" /\ MinuteDenial(kvRes'[1])]_vars

\* C10's case: the in-memory tracker denied a call for the minute while it
\* held 20 calls in the window and 500 in the month.
C10_Witness ==
    /\ MinuteDenial(memRes)
    /\ MemMinuteCountAt(memRes.now) = MAX_PER_MINUTE
    /\ MemMonthCountAt(memRes.now) = MAX_PER_MONTH
    /\ audit.monAllowed = MAX_PER_MONTH

\* C4: the two upstream-backed routes share one rate limiter: over any
\* sequence of requests to /api/indices and /api/indices-performance in one
\* process, the requests allowed through to the cache/upstream step across
\* both routes number at most 20 per minute window and at most 500 per
\* calendar month.
C4_RoutesShareOneLimiter ==
    /\ through.winCount <= MAX_PER_MINUTE
    /\ through.monCount <= MAX_PER_MONTH

\* The remaining-minute and remaining-month headers h report the counts
\* minute and month.
ReportsCounts(h, minute, month) ==
    /\ h.remainingMinute = Max(0, MAX_PER_MINUTE - minute)
    /\ h.remainingMonth = Max(0, MAX_PER_MONTH - month)

\* C11: a denied consume() (reason minute or month) increments neither the
\* minute count nor the month count (each stays the count of the window and
\* month of the call), on the shared backend it performs no store write, and
\* its headers report those current, unincremented counts.
C11_DenialChangesNothing ==
    /\ [][(Delivered(memRes, memRes') /\ ~memRes'.allowed)
            => /\ minuteCount' = MemMinuteCountAt(clock')
               /\ monthCount' = MemMonthCountAt(clock')
               /\ ReportsCounts(memRes'.headers, minuteCount', monthCount')]_vars
    /\ [][(FbDelivered(1) /\ ~kvRes'[1].allowed)
            => /\ fallbackMinuteCount' = FbMinuteCountAt(clock')
               /\ fallbackMonthCount' = FbMonthCountAt(clock')
               /\ ReportsCounts(kvRes'[1].headers, fallbackMinuteCount',
                                fallbackMonthCount')]_vars
    /\ [][(KvDecides(1) /\ call'[1].pc = "idle")
            => /\ UNCHANGED storeVars
               /\ ~kvRes'[1].allowed
               /\ ReportsCounts(kvRes'[1].headers,
                                KvMinuteCountAt(call[1].now),
                                KvMonthCountAt(call[1].now))]_vars

\* C11's case: the in-memory tracker denied a call for the month in a
\* window that the call itself began, both counts as they were.
C11_Witness ==
    /\ MonthDenial(memRes)
    /\ minuteWindowStart = memRes.now
    /\ minuteCount = 0
    /\ monthCount = MAX_PER_MONTH
    /\ memRes.headers.remainingMinute = MAX_PER_MINUTE
    /\ memRes.headers.remainingMonth = 0

\* C12: rateLimitSnapshotHeaders never spends quota: it increments neither
\* the minute count nor the month count (each stays the count of the window
\* and month of the call), on the KV trackers it changes neither the
\* fallback counters nor the store, and a consume() that would be allowed at
\* an instant is still allowed at that instant after the snapshot.
C12_SnapshotSpendsNothing ==
    /\ [][MemSnapshotSnap
            => /\ minuteCount' = MemMinuteCountAt(clock')
               /\ monthCount' = MemMonthCountAt(clock')
               /\ audit' = audit
               /\ \A t \in SnapInstants :
                    (t >= clock' /\ MemConsumeOutcome(t, MemState).res.allowed)
                        => MemConsumeOutcome(t, MemState').res.allowed]_vars
    /\ [][(\/ KvfSnapshotSnap
           \/ KvSnapshotBeginSnap
           \/ KvSnapshotGetMinute(1)
           \/ KvSnapshotGetMonth(1)
           \/ KvSnapshotReturnSnap)
            => UNCHANGED <<fbVars, storeVars, audit>>]_vars

\* C12's case: a snapshot of the in-memory tracker came after a window in
\* which 20 calls were allowed had expired.
C12_Witness ==
    /\ memRes.op = "snapshot"
    /\ audit.winAllowed = MAX_PER_MINUTE
    /\ minuteWindowStart = memRes.now
    /\ minuteCount = 0
    /\ memRes.headers.remainingMinute = MAX_PER_MINUTE

\* The same on the store: a snapshot returned while the minute record held
\* 20 calls.
C12_WitnessOnStore ==
    /\ kvRes[1].op = "snapshot"
    /\ kvMinute # None
    /\ kvMinute[1].value.count = MAX_PER_MINUTE
    /\ kvRes[1].headers.remainingMinute = 0

C14_Every429HasRetryAfter ==
    \A p \in Callers : resp[p].status = 429 => resp[p].retryAfter # None

\* C15: in both routes a request that has passed the quota step while the
\* cache holds a fresh entry for its key (now - storedAt < 60,000) returns
\* that payload and does not call the upstream - under every interleaving,
\* also when another request wrote the entry while this one awaited
\* consume().
C15_FreshEntryIsServed ==
    [][\A p \in Callers :
          (/\ PerfQuotaKnownRace(p)
           /\ kvRes[p].allowed
           /\ perfCache[req[p].key] # None
           /\ clock' - perfCache[req[p].key][1].ts < HOT_CACHE_TTL_MS)
            => /\ resp'[p] = Response(200, kvRes[p].headers, None,
                                      perfCache[req[p].key][1].data)
               /\ req'[p].pc = "idle"]_vars

\* C16: of two sequential identical requests to the same route, both allowed,
\* the first fetched the payload from the upstream and stored it; the
\* second, arriving less than 60,000 ms after that fetch, makes no upstream
\* call, returns the same payload and still spends one unit of minute and
\* of month quota.
C16_SecondRequestServedFromCache ==
    /\ [][(/\ IndicesRequestMonth
           /\ memRes'.allowed
           /\ indicesCache.data # None
           /\ clock' - indicesCache.ts < HOT_CACHE_TTL_MS)
            => /\ req'[1].pc = "idle"
               /\ resp'[1] = Response(200, memRes'.headers, None,
                                      indicesCache.data[1])
               /\ minuteCount' = MemMinuteCountAt(clock') + 1
               /\ monthCount' = MemMonthCountAt(clock') + 1]_vars
    /\ [][(/\ PerfQuotaKnownMonth
           /\ kvRes[2].allowed
           /\ perfCache[req[2].key] # None
           /\ clock' - perfCache[req[2].key][1].ts < HOT_CACHE_TTL_MS)
            => /\ req'[2].pc = "idle"
               /\ resp'[2] = Response(200, kvRes[2].headers, None,
                                      perfCache[req[2].key][1].data)
               /\ KvMonthCountAt(clock') = AllowedInMonth(clock')]_vars

\* C17: a request that finds a fresh cache entry bypasses rate limiting: it
\* is served the payload whatever the quota, spends no minute or month
\* quota, and makes no upstream call.
C17_CacheHitBypassesQuota ==
    /\ [][(/\ IndicesRequestMonth
           /\ indicesCache.data # None
           /\ Truthy(indicesCache.data[1])
           /\ clock' - indicesCache.ts < HOT_CACHE_TTL_MS)
            => /\ resp'[1].status = 200
               /\ resp'[1].body = indicesCache.data[1]
               /\ req'[1].pc = "idle"
               /\ minuteCount' = MemMinuteCountAt(clock')
               /\ monthCount' = MemMonthCountAt(clock')]_vars
    /\ [][\A key \in CacheKeys :
            (/\ PerfRequestMonth
             /\ req'[2].pc = "quota"
             /\ req'[2].key = key
             /\ perfCache[key] # None
             /\ clock' - perfCache[key][1].ts < HOT_CACHE_TTL_MS)
            => /\ resp'[2].status = 200
               /\ resp'[2].body = perfCache[key][1].data
               /\ UNCHANGED call]_vars

\* C18: every request handled by either route (past its parameter check)
\* calls consume() exactly once, and an allowed request raises the minute
\* count and the month count by exactly 1, whether it ends as a cache hit,
\* a cache miss with upstream success or an upstream failure; no later step
\* of the request gives the unit back.
C18_OneUnitPerAllowedRequest ==
    /\ [][\A p \in Callers :
            (PerfRequestRace(p) /\ req'[p].pc = "quota")
                => call[p].pc = "idle" /\ call'[p].pc = "get"]_vars
    /\ [][\A p \in Callers :
            KvSetMinute(p)
                => KvMinuteCountAt(clock)' = KvMinuteCountAt(clock) + 1]_vars
    /\ [][\A p \in Callers :
            KvSetMonth(p)
                => KvMonthCountAt(clock)' = KvMonthCountAt(clock) + 1]_vars
    /\ [][\A p \in Callers :
            (PerfQuotaKnownRace(p) \/ UpstreamAnswerRace(p))
                => UNCHANGED storeVars]_vars

\* The upstream call of the request on slot p is answered in this step.
FetchAnswered(p) == req[p].pc = "fetch" /\ req'[p].pc # "fetch"

\* C19: when the upstream answers with a non-success status S, the route
\* returns status S with the message "Upstream error: S" and the quota
\* headers of this request's consume(), and the request leaves the cache
\* exactly as it was: only a successful upstream answer changes an entry.
C19_UpstreamFailurePassedOn ==
    /\ [][\A p \in Callers :
            (FetchAnswered(p) /\ resp'[p].status # 200)
                => /\ resp'[p].status \in UpstreamErrors
                   /\ resp'[p].body =
                          (IF resp'[p].status = 404 THEN "Upstream error: 404"
                           ELSE "Upstream error: 503")
                   /\ resp'[p].headers =
                          (IF req[p].route = "indices" THEN memRes
                           ELSE kvRes[p]).headers
                   /\ resp'[p].retryAfter = None
                   /\ req'[p].pc = "idle"
                   /\ UNCHANGED <<indicesCache, perfCache>>]_vars
    /\ [][(indicesCache' # indicesCache \/ perfCache' # perfCache)
            => \E p \in Callers :
                  FetchAnswered(p) /\ resp'[p].status = 200]_vars

\* C19's case: the upstream failed with 404 while the route's cache held an
\* entry that was no hit.
C19_Witness ==
    /\ resp[1].status = 404
    /\ resp[1].body = "Upstream error: 404"
    /\ resp[1].headers = memRes.headers
    /\ indicesCache.data # None
    /\ Truthy(indicesCache.data[1])

\* C20: for the singleton cache of /api/indices and the keyed cache of
\* /api/indices-performance, and for every payload an upstream success can
\* yield (null, false, 0 and "" included): the lookup of an allowed request
\* made less than 60,000 ms after the put for its key returns that payload
\* unchanged, and a lookup made 60,000 ms or more after the put is a miss
\* that goes to the upstream.
C20_LookupAfterPut ==
    /\ [][(/\ IndicesRequestMonth
           /\ memRes'.allowed
           /\ indicesCache.data # None)
            => IF clock' - indicesCache.ts < HOT_CACHE_TTL_MS
                   THEN /\ resp'[1].status = 200
                        /\ resp'[1].body = indicesCache.data[1]
                        /\ req'[1].pc = "idle"
                   ELSE /\ resp'[1] = NoResponse
                        /\ req'[1].pc = "fetch"]_vars
    /\ [][(/\ PerfQuotaKnownMonth
           /\ kvRes[2].allowed
           /\ perfCache[req[2].key] # None)
            => IF clock' - perfCache[req[2].key][1].ts < HOT_CACHE_TTL_MS
                   THEN /\ resp'[2].status = 200
                        /\ resp'[2].body = perfCache[req[2].key][1].data
                        /\ req'[2].pc = "idle"
                   ELSE /\ resp'[2] = NoResponse
                        /\ req'[2].pc = "fetch"]_vars

\* C21: in the keyed cache of /api/indices-performance two requests whose
\* (id, limit, page) triples differ - the values being arbitrary strings,
\* ':' included - never have the same cache key, so neither is served the
\* other's entry nor overwrites it.
C21_DistinctTriplesDistinctKeys ==
    \A p, q \in Callers :
        (/\ req[p].pc # "idle"
         /\ req[q].pc # "idle"
         /\ <<req[p].query.id[1], limitOf(req[p].query), pageOf(req[p].query)>>
              # <<req[q].query.id[1], limitOf(req[q].query), pageOf(req[q].query)>>)
            => req[p].key # req[q].key

\* C22: if a store get or set fails during consume() on the shared backend,
\* consume() returns no allowed result; the handler neither calls the
\* upstream nor returns a success: the request ends as a server-side
\* failure, and touches no cache entry.
C22_StoreFaultIsNoAllow ==
    /\ [][\A p \in Callers :
            (KvGetFails(p) \/ KvSetFails(p))
                => kvRes'[p].op = "throw" /\ ~kvRes'[p].allowed]_vars
    /\ [][\A p \in Callers :
            (req[p].pc = "quota" /\ req'[p] # req[p] /\ ~kvRes[p].allowed)
                => /\ req'[p].pc = "idle"
                   /\ resp'[p].status \in {429, 500}
                   /\ (kvRes[p].op = "throw" => resp'[p].status = 500)
                   /\ UNCHANGED <<indicesCache, perfCache, through>>]_vars

\* C22's case: a write of an allowed consume() failed and the request was
\* answered 500.
C22_Witness ==
    /\ resp[2].status = 500
    /\ kvRes[2].op = "throw"
    /\ req[2].pc = "idle"
    /\ KvMonthCountAt(clock) > AllowedInMonth(clock)

C23_WitnessOnFallback ==
    /\ kv = "null"
    /\ degradationLogs = 1
    /\ kvRes[1].op = "consume"
    /\ fallbackMonthCount = 2

\* C24: the limiter guarantees at most 20 requests per minute: in every
\* interval of 60,000 ms, wherever it starts, at most 20 sequential
\* consume() calls are allowed.
C24_TwentyPerRollingMinute == Len(recent) <= MAX_PER_MINUTE

\* C25: with the 60-second cache, rapid requests for the same cache key, all
\* allowed and the upstream succeeding, cause one upstream call in total -
\* also when they overlap: a request that arrives while another one's
\* upstream call for its key is in flight starts no second call.
C25_OneUpstreamCallForRapidRequests ==
    \A p, q \in Callers :
        (/\ p # q
         /\ req[p].pc = "fetch"
         /\ req[q].pc = "fetch"
         /\ req[p].route = req[q].route)
            => req[p].key # req[q].key

\* C26: every denial with reason "minute", made at time now in a window
\* started at windowStart, carries
\* retryAfterSeconds = max(1, ceil((windowStart + 60000 - now) / 1000)), in
\* the in-memory tracker, the KV tracker and the KV module's fallback alike.
C26_RetryAfterIsCeiling ==
    /\ [][(Delivered(memRes, memRes') /\ ~memRes'.allowed
              /\ memRes'.reason = "minute")
            => memRes'.retryAfterSeconds =
                  Some(Max(1, CeilSeconds(minuteWindowStart' + MINUTE_WINDOW_MS
                                            - memRes'.now)))]_vars
    /\ [][(FbDelivered(1) /\ ~kvRes'[1].allowed /\ kvRes'[1].reason = "minute")
            => kvRes'[1].retryAfterSeconds =
                  Some(Max(1, CeilSeconds(fallbackMinuteStart' + MINUTE_WINDOW_MS
                                            - kvRes'[1].now)))]_vars
    /\ [][(KvDecides(1) /\ kvRes'[1].op = "consume" /\ ~kvRes'[1].allowed
              /\ kvRes'[1].reason = "minute")
            => kvRes'[1].retryAfterSeconds =
                  Some(Max(1, CeilSeconds(
                      KvMinuteWindowStart(call[1].now, call[1].minuteData)
                          + MINUTE_WINDOW_MS - call[1].now)))]_vars

\* C27: when consume() at time t is denied with reason "minute" and
\* retryAfterSeconds r, the next consume(), made at any time at or after
\* t + 1000 * r with month capacity left, is not denied for the minute
\* reason.
WaitedRetryAfter(r, r2) ==
    /\ r.op = "consume" /\ ~r.allowed /\ r.reason = "minute"
    /\ r2.now >= r.now + 1000 * r.retryAfterSeconds[1]
C27_RetryAfterSuffices ==
    /\ [][(Delivered(memRes, memRes') /\ WaitedRetryAfter(memRes, memRes'))
            => ~(~memRes'.allowed /\ memRes'.reason = "minute")]_vars
    /\ [][(Delivered(kvRes[1], kvRes'[1])
              /\ WaitedRetryAfter(kvRes[1], kvRes'[1]))
            => ~(~kvRes'[1].allowed /\ kvRes'[1].reason = "minute")]_vars

\* C28: a request that consume() allowed and whose upstream call has
\* started runs to its end whatever its client does: when the client has
\* gone, no quota unit is given back, neither when it goes nor when the
\* upstream answers, and a successful upstream answer is still written to
\* the route's cache.
Abandons(p) == connected[p] /\ ~connected'[p] /\ req[p].pc = "fetch"
AnsweredAbandoned(p) == FetchAnswered(p) /\ ~connected[p]
C28_AbandonedRequestCompletes ==
    [][\A p \in Callers :
          /\ (Abandons(p) \/ AnsweredAbandoned(p))
                => UNCHANGED <<minuteWindowStart, minuteCount, monthKey,
                               monthCount, fbVars, storeVars>>
          /\ (AnsweredAbandoned(p) /\ resp'[p].status = 200)
                => IF req[p].route = "indices"
                     THEN indicesCache' =
                              [data |-> Some(resp'[p].body), ts |-> clock']
                     ELSE perfCache'[req[p].key] =
                              Some([data |-> resp'[p].body, ts |-> clock'])]_vars
C28_Witness ==
    /\ ~connected[1]
    /\ req[1].pc = "idle"
    /\ resp[1].status = 200
    /\ indicesCache = [data |-> Some(resp[1].body), ts |-> clock]
    /\ minuteCount >= 1

\* C29: the hooks poll only while the tab is visible: no fetch is made by
\* the interval of useIndices or usePerformance while the document is
\* hidden, useIndices polls only when ws is false and usePerformance only
\* while an id is selected; and while the tab is visible an interval is
\* running that is due within refreshMs (for useIndices when ws is false,
\* for usePerformance while an id is selected).
C29_PollsOnlyWhileVisible ==
    /\ \A h \in Hooks :
          lastPoll[h] # None =>
              /\ ~lastPoll[h][1].hidden
              /\ h = "useIndices" => ~lastPoll[h][1].ws
              /\ h = "usePerformance" => lastPoll[h][1].id # None
    /\ (mounted /\ ~documentHidden /\ ~wsOption) =>
          /\ timer["useIndices"] # None
          /\ timer["useIndices"][1] <= clock + 60000
    /\ (mounted /\ ~documentHidden /\ openId # None /\ openId # Some(0)) =>
          /\ timer["usePerformance"] # None
          /\ timer["usePerformance"][1] <= clock + 60000

\* C30: on the shared store the two counters move together: after any
\* consume(), also one in which one of the two parallel writes failed, the
\* stored minute count and the stored month count have both grown by 1 or
\* are both unchanged.  Both start from the same count and the calls are
\* made within one minute window, one after the other, so between calls
\* the two stored counts are equal.
C30_CountersMoveTogether ==
    \A p \in Callers :
        (call[p].pc = "idle" /\ kvRes[p].op \in {"consume", "throw"})
            => KvMinuteCountAt(clock) = KvMonthCountAt(clock)

\* C31: on every consume() outcome the reset-minute header is
\* floor((W + 60000) / 1000), W being the start of the window the call
\* resolved: now when the call found the window absent or expired, the
\* stored start otherwise.
ResolvedWindowStart(now, found) ==
    IF found = None \/ now - found[1].windowStart >= MINUTE_WINDOW_MS
        THEN now
        ELSE found[1].windowStart
C31_ResetMinuteOfResolvedWindow ==
    /\ [][Delivered(memRes, memRes')
            => memRes'.headers.resetMinute =
                  EpochSeconds(minuteWindowStart' + MINUTE_WINDOW_MS)]_vars
    /\ [][("kvWithFallback" \in modules /\ FbDelivered(1))
            => kvRes'[1].headers.resetMinute =
                  EpochSeconds(fallbackMinuteStart' + MINUTE_WINDOW_MS)]_vars
    /\ [][(KvDecides(1) /\ (call'[1].pc = "set" \/ kvRes'[1].op = "consume"))
            => (IF call'[1].pc = "set" THEN call'[1].res.headers
                ELSE kvRes'[1].headers).resetMinute =
                  EpochSeconds(ResolvedWindowStart(call[1].now,
                                                   call[1].minuteData)
                               + MINUTE_WINDOW_MS)]_vars

\* C32: a snapshot resolves the minute window as consume() does: its
\* remaining-minute is max(0, 20 - c), c being 0 when the stored window is
\* absent or expired (now - windowStart >= 60,000 ms) and the stored count
\* otherwise, in the in-memory tracker, the KV trackers and the fallback.
ResolvedCount(now, windowStart, count) ==
    IF windowStart = 0 \/ now - windowStart >= MINUTE_WINDOW_MS
        THEN 0
        ELSE count
SnapshotDelivered(r, r2) == r2 # r /\ r2.op = "snapshot"
C32_SnapshotResolvesWindow ==
    /\ [][SnapshotDelivered(memRes, memRes')
            => memRes'.headers.remainingMinute =
                  Max(0, MAX_PER_MINUTE -
                         ResolvedCount(memRes'.now, minuteWindowStart,
                                       minuteCount))]_vars
    /\ [][(/\ SnapshotDelivered(kvRes[1], kvRes'[1])
           /\ "kvWithFallback" \in modules /\ kv' = "null")
            => kvRes'[1].headers.remainingMinute =
                  Max(0, MAX_PER_MINUTE -
                         ResolvedCount(kvRes'[1].now, fallbackMinuteStart,
                                       fallbackMinuteCount))]_vars
    /\ [][(SnapshotDelivered(kvRes[1], kvRes'[1]) /\ call[1].pc = "snapshot")
            => kvRes'[1].headers.remainingMinute =
                  Max(0, MAX_PER_MINUTE -
                         (IF call[1].minuteData = None THEN 0
                          ELSE ResolvedCount(kvRes'[1].now,
                                   call[1].minuteData[1].windowStart,
                                   call[1].minuteData[1].count)))]_vars

\* C33: the backends are interchangeable: for sequential consume() calls
\* at non-decreasing times, also past the month cap and across a UTC month
\* boundary, the in-memory tracker and the tracker on a non-failing store
\* give every call the same decision and the same denial reason.
C33_BackendsDecideAlike ==
    (/\ pending = None
     /\ call[1].pc = "idle"
     /\ memRes.op = "consume"
     /\ kvRes[1].op = "consume")
        => /\ kvRes[1].now = memRes.now
           /\ kvRes[1].allowed = memRes.allowed
           /\ kvRes[1].reason = memRes.reason

\* C34: every response of either route that follows a completed consume()
\* - success, 429 and upstream failure alike - carries the six quota
\* headers: limit-minute 20, limit-month 500, remaining-minute in 0..20,
\* remaining-month in 0..500, and the two reset times.
CarriesQuotaHeaders(r) ==
    /\ r.headers.limitMinute = 20
    /\ r.headers.limitMonth = 500
    /\ r.headers.remainingMinute \in 0..20
    /\ r.headers.remainingMonth \in 0..500
    /\ r.headers.resetMinute > 0
    /\ r.headers.resetMonth > 0
AnswersAfterConsume(p) ==
    \/ FetchAnswered(p)
    \/ req[p].pc = "quota" /\ kvRes[p].op = "consume" /\ req'[p].pc = "idle"
    \/ req[p].pc = "idle" /\ req'[p].pc = "idle" /\ resp'[p].status \in {200, 429}
C34_EveryResponseHasQuotaHeaders ==
    [][\A p \in Callers :
          AnswersAfterConsume(p) => CarriesQuotaHeaders(resp'[p])]_vars

\* C35: cache entries are created and overwritten only by a successful
\* upstream fetch and are never deleted: a key that has an entry keeps one,
\* its storedAt never decreases, and a step that changes an entry is the
\* successful answer to a request for that key, storing that answer at the
\* time of the step.
StoredBy(p) ==
    /\ FetchAnswered(p)
    /\ resp'[p].status = 200
    /\ IF req[p].route = "indices"
         THEN /\ indicesCache' = [data |-> Some(resp'[p].body), ts |-> clock']
              /\ UNCHANGED perfCache
         ELSE /\ perfCache' = [perfCache EXCEPT ![req[p].key] =
                                  Some([data |-> resp'[p].body, ts |-> clock'])]
              /\ UNCHANGED indicesCache
C35_CacheOnlyGrows ==
    [][/\ indicesCache.data # None
            => indicesCache'.data # None /\ indicesCache'.ts >= indicesCache.ts
       /\ \A key \in CacheKeys :
            perfCache[key] # None
                => /\ perfCache'[key] # None
                   /\ perfCache'[key][1].ts >= perfCache[key][1].ts
       /\ <<indicesCache, perfCache>>' # <<indicesCache, perfCache>>
            => \E p \in Callers : StoredBy(p)]_vars
C35_Witness ==
    \E p \in Callers, key \in CacheKeys :
        /\ resp[p].status \in {429, 500, 503}
        /\ perfCache[key] # None
        /\ perfCache[key][1].ts > StartMs
        /\ resp[3 - p].status = 200

\* C37: a request to /api/indices-performance without an id is answered
\* 400 and the step that answers it changes nothing else: no call of
\* consumeRateLimit() begins, no counter of either tracker moves, no cache
\* entry changes and no upstream call starts, for this request or for one
\* in flight beside it.
C37_MissingIdHasNoEffect ==
    [][\A p \in Callers :
        (resp'[p] # resp[p] /\ resp'[p].status = 400)
            => /\ resp'[p] = Response(400, NoHeaders, None, "id required")
               /\ resp'[3 - p] = resp[3 - p]
               /\ UNCHANGED <<clock, memVars, kvVars, audit, indicesCache,
                              perfCache, req>>]_vars
C37_Witness ==
    \E p \in Callers :
        /\ resp[p].status = 400
        /\ req[p].pc = "idle"
        /\ call[p].pc = "idle"
        /\ req[3 - p].pc = "fetch"

\* C36: snapshot calls do not perturb the in-memory tracker's decisions:
\* every consume() call is decided as the same call is decided in the run
\* that is sent the same consume() calls at the same clock readings and no
\* rateLimitSnapshotHeaders() call.
C36_SnapshotsDoNotPerturb ==
    memRes.op = "consume" => memRes.allowed = twin.res.allowed

\* C38: in usePerformance the loading flag is true whenever the most
\* recently started request is still in flight.
C38_LoadingWhileInFlight ==
    fetches["usePerformance"].pc # "idle"
        => fetches["usePerformance"].loading

\* C39: a request of useIndices or usePerformance that was aborted writes
\* neither data nor error afterwards: a step in which fetchNow, called by
\* the interval or by Refresh, aborts the request in flight leaves the
\* hook's data and error as they were.
C39_AbortedRequestWritesNothing ==
    [][\A h \in Hooks :
        (/\ fetches[h].pc # "idle"
         /\ fetches'[h].pc = "fetch"
         /\ fetches'[h] # fetches[h]
         /\ openId' = openId)
            => /\ fetches'[h].data = fetches[h].data
               /\ fetches'[h].error = fetches[h].error]_vars

=============================================================================
